---- MODULE Spec2Model ----
(***************************************************************************)
(* Model of the recall-ai backend: the daily usage limiter, the            *)
(* POST /api/study-modules/ai/generate handler that uses it, and the AI    *)
(* service factory.                                                        *)
(*                                                                         *)
(* Time is the JavaScript epoch time in milliseconds.  The data store is   *)
(* the pair of tables the limiter counts: study_modules (a set of rows)    *)
(* and flashcards (a bag of rows: flashcard ids are never read by the      *)
(* code modelled here, so rows that agree on every other column are        *)
(* counted, not told apart).                                               *)
(***************************************************************************)
EXTENDS Integers, FiniteSets, Sequences, Bags, TLC

(***************************************************************************)
(* Bounds of the model.                                                    *)
(***************************************************************************)
\* request slots: the largest number of requests in flight together
MaxInFlight == 2
\* requests received in one behaviour of the one-at-a-time specification
MaxRequests == 3
\* requests received in one behaviour of the concurrent specification
MaxOverlapping == 2
\* the clock runs over the UTC days 0 .. MaxDay
MaxDay == 1
\* provider requests issued in one behaviour of the factory specification
MaxProviderRequests == 1
\* provider requests issued in one behaviour of the configuration specification
MaxConfigRequests == 2
\* requests received in one behaviour of the limit-denial specification
MaxLimitChecks == 2
\* requests received in one behaviour of the AI routes specification
MaxAIRequests == 2
\* requests received in one behaviour of the ownership specification
MaxStudyRequests == 2
\* rows of the study_sessions table
MaxSessions == 3
\* cards in one reply of the provider to generateFlashcards
MaxReplyCards == 2
\* card requests answered by one script of provider replies
MaxScriptCalls == 4
\* requests to the store routes next to the generate route
MaxCounterRequests == 1
\* flashcards created by hand
MaxManualCards == 2
\* requests to the routes that save generated cards
MaxCardRequests == 2
\* PUT /api/study/session/:id requests
MaxProgressRequests == 2

(***************************************************************************)
(* Program constants.                                                      *)
(***************************************************************************)
\* milliseconds in a UTC calendar day (Date.UTC(y, m, d, 0, 0, 0, 0))
MsPerDay == 86400000
\* DAILY_LIMITS.STUDY_MODULES
STUDY_MODULES == 3
\* DAILY_LIMITS.AI_CARDS
AI_CARDS == 30
\* const { numberOfCards = 20 } = req.body, and numberOfCards || 20
DefaultNumberOfCards == 20
\* numberOfCards < 5 || numberOfCards > 100
MinNumberOfCards == 5
MaxNumberOfCards == 100
\* topic.length > 200
MaxTopicLength == 200
\* setTimeout(..., 120000)
GenerationTimeoutMs == 120000
\* content.length > 50000 (flashcards-ai.ts)
MaxContentLength == 50000
\* the destructuring defaults and bounds of numberOfCards in flashcards-ai.ts
DefaultCardsFromContent == 5
DefaultCardsFromTopic == 10
MinCardsFromTopic == 1
MaxCardsFromTopic == 50
\* req.body.numberOfCards || 5 of checkAICardsRateLimit
MiddlewareDefaultCards == 5

Users == {"alice", "bob"}
Slots == 1 .. MaxInFlight

Max(a, b) == IF a >= b THEN a ELSE b

(***************************************************************************)
(* The clock.  It only moves forward, over the instants around each UTC    *)
(* midnight: its first millisecond and the millisecond before it.          *)
(***************************************************************************)
DayOffsets == {0, 1}
TimePoints == {0} \cup {d * MsPerDay - o : d \in 1 .. MaxDay, o \in DayOffsets}

\* variant: a rolling window of 24 hours instead of the calendar day
getStartOfTodayUTCRolling(t) == t - MsPerDay

\* getStartOfTodayUTC, as a function of the clock reading `t`
getStartOfTodayUTC(t) == t - (t % MsPerDay)

VARIABLES
    now,            \* the wall clock, ms since the epoch
    studyModules,   \* table study_modules: set of rows
    flashcards,     \* table flashcards: bag of rows
    nextId,         \* the next study-module id the store hands out
    req,            \* per request slot: the handler's local variables and position
    res,            \* per request slot: the status of the response sent, 0 if none
    received,       \* number of requests received so far
    env,            \* process.env
    aiServiceInstance, \* ai.service.ts: let aiServiceInstance
    serviceInstance,   \* the module-level serviceInstance cell of each provider module
    lastCall,       \* outcome of the latest getAIService call
    firstSinceReset,\* the adapter returned by the first successful call since the last reset
    chatModel,      \* vertex-ai.service.ts: let chatModel (TRUE once initialised)
    providerRequests, \* number of requests issued to an LLM provider
    lastRequest,    \* the latest provider request issued since the last reset
    gen,            \* a generateStudyModule call: its locals, position and sub-calls
    lateGeneration, \* per request slot: the generateStudyModule promise that lost
                    \* the race against the timer ("none", "pending", "discarded")
    resBody,        \* per request slot: limit.resetTime of the response body
    studySessions,  \* table study_sessions: set of rows
    moduleProgress, \* table module_progress: set of rows, one per user and module
    lastAccess,     \* the last row a query touched, and the user who asked
    cardsCall,      \* a generateFlashcards call: its options, reply and result
    script,         \* the provider replies both adapters are run against
    genVertex       \* the generateStudyModule call of the Vertex adapter

storeVars == <<studyModules, flashcards, nextId>>
factoryVars == <<env, aiServiceInstance, serviceInstance, chatModel, lastCall,
                 firstSinceReset>>
vars == <<now, studyModules, flashcards, nextId, req, res, received,
          env, aiServiceInstance, serviceInstance, chatModel, lastCall,
          firstSinceReset, providerRequests, lastRequest, gen, lateGeneration,
          resBody, studySessions, moduleProgress, lastAccess, cardsCall, script,
          genVertex>>
studyVars == <<studySessions, moduleProgress, lastAccess>>
adapterVars == <<cardsCall, script, genVertex>>

(***************************************************************************)
(* The store queries of the limiter.                                       *)
(***************************************************************************)
\* total number of copies in bag B of the elements that satisfy Test
RECURSIVE SumBag(_, _)
SumBag(B, S) ==
    IF S = {} THEN 0
    ELSE LET e == CHOOSE x \in S : TRUE
         IN B[e] + SumBag(B, S \ {e})

\* prisma.studyModule.count({where: {userId, createdAt: {gte: startOfToday}}})
CountStudyModules(userId, startOfToday) ==
    Cardinality({m \in studyModules :
                    m.userId = userId /\ m.createdAt >= startOfToday})

\* the relation filter  module: {isAIGenerated: true}  of a flashcard row
ModuleIsAIGenerated(card) ==
    \E m \in studyModules : m.id = card.moduleId /\ m.isAIGenerated

\* variant: the two branches of the OR are counted one after the other
CountAICardsPerBranch(userId, startOfToday) ==
    SumBag(flashcards,
           {c \in DOMAIN flashcards :
               c.userId = userId /\ c.createdAt >= startOfToday /\ c.isAIGenerated})
    + SumBag(flashcards,
             {c \in DOMAIN flashcards :
                 c.userId = userId /\ c.createdAt >= startOfToday
                 /\ ModuleIsAIGenerated(c)})

\* prisma.flashcard.count({where: {userId, createdAt: {gte}, OR: [...]}})
CountAICards(userId, startOfToday) ==
    SumBag(flashcards,
           {c \in DOMAIN flashcards :
               /\ c.userId = userId
               /\ c.createdAt >= startOfToday
               /\ (c.isAIGenerated \/ ModuleIsAIGenerated(c))})

(***************************************************************************)
(* The limiter (utils/rateLimit).  A check reads the clock and counts the  *)
(* rows at one instant, `t` (the clock does not advance during a query).   *)
(***************************************************************************)
\* variant: the limit itself is still allowed (count <= limit)
checkStudyModuleDailyLimitOffByOne(userId, t) ==
    LET count == CountStudyModules(userId, getStartOfTodayUTC(t))
        limit == STUDY_MODULES
    IN [done |-> TRUE,
        allowed |-> count <= limit,
        currentCount |-> count,
        limit |-> limit,
        remaining |-> Max(0, limit - count)]

checkStudyModuleDailyLimit(userId, t) ==
    LET startOfToday == getStartOfTodayUTC(t)
        count == CountStudyModules(userId, startOfToday)
        limit == STUDY_MODULES
        allowed == count < limit
        remaining == Max(0, limit - count)
    IN [done |-> TRUE,
        allowed |-> allowed,
        currentCount |-> count,
        limit |-> limit,
        remaining |-> remaining]

\* variant: the requested cards are left out of the decision
checkAICardsDailyLimitIgnoresRequest(userId, requestedCount, t) ==
    LET count == CountAICards(userId, getStartOfTodayUTC(t))
        limit == AI_CARDS
    IN [done |-> TRUE,
        allowed |-> count <= limit,
        currentCount |-> count,
        limit |-> limit,
        remaining |-> Max(0, limit - count),
        requestedCount |-> requestedCount]

checkAICardsDailyLimit(userId, requestedCount, t) ==
    LET startOfToday == getStartOfTodayUTC(t)
        count == CountAICards(userId, startOfToday)
        limit == AI_CARDS
        newTotal == count + requestedCount
        allowed == newTotal <= limit
        remaining == Max(0, limit - count)
    IN [done |-> TRUE,
        allowed |-> allowed,
        currentCount |-> count,
        limit |-> limit,
        remaining |-> remaining,
        requestedCount |-> requestedCount]

\* a check whose result has not arrived yet
NoStudyModuleLimit ==
    [done |-> FALSE, allowed |-> FALSE, currentCount |-> 0, limit |-> 0,
     remaining |-> 0]
NoAICardsLimit ==
    [done |-> FALSE, allowed |-> FALSE, currentCount |-> 0, limit |-> 0,
     remaining |-> 0, requestedCount |-> 0]

(***************************************************************************)
(* Configuration (config/ai.config.ts) and the AI service factory          *)
(* (services/ai.service.ts).                                               *)
(***************************************************************************)
\* an environment variable that is not set (process.env.X === undefined)
Unset == "<unset>"
\* the JavaScript null of the instance cells
Null == "<null>"

\* enum AIProvider
VERTEX_AI == "vertex-ai"
GOOGLE_API_KEY == "google-api-key"
OPENAI == "openai"
OPENROUTER == "openrouter"
AIProvider == {VERTEX_AI, GOOGLE_API_KEY, OPENAI, OPENROUTER}

\* values the AI_PROVIDER variable takes in the model
ProviderValues ==
    {Unset, "", "bogus", "OpenAI", OPENAI, VERTEX_AI, GOOGLE_API_KEY, OPENROUTER}
\* values of the API key variables
KeyValues == {Unset, "sk-key"}
\* values of GOOGLE_VERTEX_AI_CREDENTIALS: unset, a complete service account
\* JSON, one without "type", one without "private_key"
VertexCredentialValues ==
    {Unset, "json:complete", "json:no_type", "json:no_private_key"}

\* values of OPENAI_MODEL, the model override of the OpenAI adapter
ModelValues == {Unset, "gpt-4o"}

\* the variables that select the provider and hold its credentials
CredentialEnvNames ==
    {"AI_PROVIDER", "OPENAI_API_KEY", "GOOGLE_VERTEX_AI_CREDENTIALS",
     "GOOGLE_GEMINI_API_KEY", "OPENROUTER_API_KEY"}
EnvNames == CredentialEnvNames \cup {"OPENAI_MODEL"}
EnvValues(name) ==
    CASE name = "AI_PROVIDER" -> ProviderValues
      [] name = "GOOGLE_VERTEX_AI_CREDENTIALS" -> VertexCredentialValues
      [] name = "OPENAI_MODEL" -> ModelValues
      [] OTHER -> KeyValues

\* String.prototype.toLowerCase over the values of the model; the optional
\* chaining  ?.  leaves undefined as it is
toLowerCase(v) ==
    CASE v = "OpenAI" -> "openai"
      [] OTHER -> v

\* variant: the default is the provider the warning names ('openai')
getAIProviderDefaultsToOpenAI ==
    LET provider == toLowerCase(env["AI_PROVIDER"])
    IN IF provider = Unset \/ provider = "" \/ provider \notin AIProvider
       THEN OPENAI
       ELSE provider

\* getAIProvider: the selected provider; it has no throwing path
getAIProvider ==
    LET provider == toLowerCase(env["AI_PROVIDER"])
        validProviders == {VERTEX_AI, GOOGLE_API_KEY, OPENAI, OPENROUTER}
    IN IF provider = Unset \/ provider = "" \/ provider \notin validProviders
       THEN GOOGLE_API_KEY
       ELSE provider

\* getVertexAICredentials throws: unset or empty value, or a JSON without
\* project_id, private_key or client_email ("type" is not validated)
getVertexAICredentialsThrows ==
    LET credentialsEnv == env["GOOGLE_VERTEX_AI_CREDENTIALS"]
    IN \/ credentialsEnv = Unset
       \/ credentialsEnv = ""
       \/ credentialsEnv = "json:no_private_key"

\* new OpenAIService() throws: OPENAI_API_KEY unset or empty
OpenAIServiceConstructorThrows ==
    LET apiKey == IF env["OPENAI_API_KEY"] = Unset THEN "" ELSE env["OPENAI_API_KEY"]
    IN apiKey = ""

\* new VertexAIService() throws
VertexAIServiceConstructorThrows == getVertexAICredentialsThrows

\* the constructors of the Google-API-key and OpenRouter adapters: they throw
\* when the provider's API key is absent
GoogleGeminiServiceConstructorThrows ==
    env["GOOGLE_GEMINI_API_KEY"] = Unset \/ env["GOOGLE_GEMINI_API_KEY"] = ""
OpenRouterServiceConstructorThrows ==
    env["OPENROUTER_API_KEY"] = Unset \/ env["OPENROUTER_API_KEY"] = ""

ConstructorThrows(provider) ==
    CASE provider = OPENAI -> OpenAIServiceConstructorThrows
      [] provider = VERTEX_AI -> VertexAIServiceConstructorThrows
      [] provider = GOOGLE_API_KEY -> GoogleGeminiServiceConstructorThrows
      [] provider = OPENROUTER -> OpenRouterServiceConstructorThrows

\* the adapter object of a provider: each provider module keeps one instance
\* (its serviceInstance cell is never cleared), so the provider names it
Adapter(provider) == provider

\* no provider request issued yet
NoRequest == [adapter |-> Null, apiKey |-> Null, model |-> Null]

NoCall ==
    [outcome |-> "none", instance |-> Null, provider |-> Null, path |-> "none",
     tag |-> Unset]

\* variant: no cached instance is consulted, every call selects again
getAIServiceNoCache ==
    LET provider == getAIProvider
    IN IF serviceInstance[provider] # Null
       THEN /\ aiServiceInstance' = serviceInstance[provider]
            /\ lastCall' = [outcome |-> "returned", instance |-> serviceInstance[provider],
                            provider |-> provider, path |-> "singleton",
                                 tag |-> env["AI_PROVIDER"]]
            /\ UNCHANGED serviceInstance
       ELSE IF ConstructorThrows(provider)
       THEN /\ lastCall' = [outcome |-> "threw", instance |-> Null,
                            provider |-> provider, path |-> "constructor",
                                 tag |-> env["AI_PROVIDER"]]
            /\ UNCHANGED <<aiServiceInstance, serviceInstance>>
       ELSE /\ serviceInstance' = [serviceInstance EXCEPT ![provider] = Adapter(provider)]
            /\ aiServiceInstance' = Adapter(provider)
            /\ lastCall' = [outcome |-> "returned", instance |-> Adapter(provider),
                            provider |-> provider, path |-> "constructor",
                                 tag |-> env["AI_PROVIDER"]]

\* variant: the cell is assigned before the adapter is constructed
getAIServiceCachesBeforeConstruction ==
    IF aiServiceInstance # Null
    THEN /\ lastCall' = [outcome |-> "returned", instance |-> aiServiceInstance,
                         provider |-> Null, path |-> "cached",
                                 tag |-> env["AI_PROVIDER"]]
         /\ UNCHANGED <<aiServiceInstance, serviceInstance>>
    ELSE LET provider == getAIProvider
         IN IF serviceInstance[provider] = Null /\ ConstructorThrows(provider)
            THEN /\ aiServiceInstance' = Adapter(provider)
                 /\ lastCall' = [outcome |-> "threw", instance |-> Null,
                                 provider |-> provider, path |-> "constructor",
                                 tag |-> env["AI_PROVIDER"]]
                 /\ UNCHANGED serviceInstance
            ELSE /\ serviceInstance' = [serviceInstance EXCEPT ![provider] = Adapter(provider)]
                 /\ aiServiceInstance' = Adapter(provider)
                 /\ lastCall' = [outcome |-> "returned", instance |-> Adapter(provider),
                                 provider |-> provider, path |-> "constructor",
                                 tag |-> env["AI_PROVIDER"]]

\* getAIService: its effect on the instance cells, and its outcome in lastCall.
\* path tells how the result was obtained: "cached" (aiServiceInstance was
\* set), "singleton" (the provider module already held its instance) or
\* "constructor" (the adapter's constructor ran); tag is the AI_PROVIDER
\* value the call found; provider is the selection, if one was made
getAIService ==
    IF aiServiceInstance # Null
    THEN /\ lastCall' = [outcome |-> "returned", instance |-> aiServiceInstance,
                         provider |-> Null, path |-> "cached",
                                 tag |-> env["AI_PROVIDER"]]
         /\ UNCHANGED <<aiServiceInstance, serviceInstance>>
    ELSE LET provider == getAIProvider
         IN IF serviceInstance[provider] # Null
            THEN \* getXService(): if (!serviceInstance) is false
                 /\ aiServiceInstance' = serviceInstance[provider]
                 /\ lastCall' = [outcome |-> "returned",
                                 instance |-> serviceInstance[provider],
                                 provider |-> provider, path |-> "singleton",
                                 tag |-> env["AI_PROVIDER"]]
                 /\ UNCHANGED serviceInstance
            ELSE IF ConstructorThrows(provider)
            THEN \* the throw leaves both cells unassigned; it is logged and rethrown
                 /\ lastCall' = [outcome |-> "threw", instance |-> Null,
                                 provider |-> provider, path |-> "constructor",
                                 tag |-> env["AI_PROVIDER"]]
                 /\ UNCHANGED <<aiServiceInstance, serviceInstance>>
            ELSE /\ serviceInstance' =
                        [serviceInstance EXCEPT ![provider] = Adapter(provider)]
                 /\ aiServiceInstance' = Adapter(provider)
                 /\ lastCall' = [outcome |-> "returned", instance |-> Adapter(provider),
                                 provider |-> provider, path |-> "constructor",
                                 tag |-> env["AI_PROVIDER"]]

\* a call of getAIService by some caller, with the record of the first adapter
\* handed out since the last reset
CallGetAIService ==
    /\ getAIService
    /\ firstSinceReset' =
          IF firstSinceReset = Null /\ lastCall'.outcome = "returned"
          THEN lastCall'.instance
          ELSE firstSinceReset
    /\ UNCHANGED <<env, chatModel>>

\* resetAIService
resetAIService ==
    /\ aiServiceInstance' = Null
    /\ firstSinceReset' = Null
    /\ lastCall' = NoCall
    /\ lastRequest' = NoRequest
    /\ UNCHANGED <<env, serviceInstance, chatModel>>

\* getModelConfig: the model of the provider AI_PROVIDER selects now, the
\* OPENAI_MODEL override or the default of each provider (the temperature
\* and max-token entries are read the same way)
getModelConfig ==
    CASE getAIProvider = OPENAI ->
            [model |-> IF env["OPENAI_MODEL"] \in {Unset, ""}
                       THEN "gpt-4" ELSE env["OPENAI_MODEL"]]
      [] getAIProvider = VERTEX_AI -> [model |-> "gemini-1.5-pro"]
      [] getAIProvider = GOOGLE_API_KEY -> [model |-> "gemini-2.0-flash"]
      [] getAIProvider = OPENROUTER -> [model |-> "anthropic/claude-3-sonnet"]

\* OpenAIService.makeRequest: the request sent to api.openai.com; the key
\* and the model configuration are read from the environment at each request
makeRequest ==
    [adapter |-> Adapter(OPENAI),
     apiKey |-> env["OPENAI_API_KEY"],
     model |-> getModelConfig.model]

\* the provider request an adapter issues; for the adapters other than
\* OpenAI only the adapter is recorded
ProviderRequest(adapter) ==
    IF adapter = Adapter(OPENAI)
    THEN makeRequest
    ELSE [adapter |-> adapter, apiKey |-> Null, model |-> Null]

(***************************************************************************)
(* POST /api/study-modules/ai/generate (routes/study-modules.ts).          *)
(* A request occupies a slot from its arrival to its response; the         *)
(* handler's awaits are the points where other requests interleave.        *)
(***************************************************************************)
\* req.body.topic: undefined, a blank string, a usual string, a too long one
TopicInputs ==
    {[kind |-> "undefined", length |-> 0, trimLength |-> 0],
     [kind |-> "string", length |-> 3, trimLength |-> 0],
     [kind |-> "string", length |-> 12, trimLength |-> 12],
     [kind |-> "string", length |-> 201, trimLength |-> 201]}

\* req.body.numberOfCards: undefined or an integer
NumberOfCardsInputs ==
    {[defined |-> FALSE, value |-> 0]}
    \cup {[defined |-> TRUE, value |-> v] : v \in {-5, 0, 4, 10, 30, 31, 101}}

UsualTopic == CHOOSE t \in TopicInputs : t.length = 12
Body(topic, value) ==
    [topic |-> topic, numberOfCards |-> [defined |-> TRUE, value |-> value]]

\* the request bodies of the one-at-a-time specification: a usual topic with
\* each numberOfCards, and each other topic with 10 cards
Bodies ==
    {[topic |-> UsualTopic, numberOfCards |-> n] :
        n \in {m \in NumberOfCardsInputs : m.value \in {0, 4, 10, 30}}}
    \cup {Body(t, 10) : t \in TopicInputs}

\* the request bodies of the concurrent specification: numberOfCards is
\* undefined or a nonzero integer, so the count that is checked is the count
\* that is generated
ConcurrentBodies ==
    {b \in Bodies : /\ b.topic = UsualTopic
                    /\ ~b.numberOfCards.defined \/ b.numberOfCards.value \in {4, 10}}

\* lengths of the flashcard list generateStudyModule returns for a request of
\* n cards: allFlashcards.slice(0, totalCardsNeeded) holds at most n cards
GeneratedLengths(n) == {0, n}

\* req.body.content: undefined, a blank string, a usual string, a too long one
ContentInputs ==
    {[kind |-> "undefined", length |-> 0, trimLength |-> 0],
     [kind |-> "string", length |-> 3, trimLength |-> 0],
     [kind |-> "string", length |-> 40, trimLength |-> 40],
     [kind |-> "string", length |-> MaxContentLength + 1,
      trimLength |-> MaxContentLength + 1]}
NoContent == CHOOSE c \in ContentInputs : c.kind = "undefined"

\* the options object handed to a method of the adapter: the method, and
\* options.numberOfCards, options.topic.length, options.content.length
Options(method, numberOfCards, topicLength, contentLength) ==
    [method |-> method, numberOfCards |-> numberOfCards,
     topicLength |-> topicLength, contentLength |-> contentLength]
NoOptions == Options("", 0, 0, 0)

\* req.rateLimitInfo before a middleware attaches it
NoRateLimitInfo == [type |-> "none", remaining |-> 0]

\* the local variables of a handler that is not running
\* a Date column: NULL, or the instant it was set
NoDate == [set |-> FALSE, at |-> 0]
DateAt(t) == [set |-> TRUE, at |-> t]

\* req.body.currentCardIndex: undefined, or a number
NoIndex == [defined |-> FALSE, value |-> 0]
Index(i) == [defined |-> TRUE, value |-> i]

\* the result of moduleProgress.findUnique: null, or the row as it was read
NoProgress ==
    [found |-> FALSE, currentCardIndex |-> 0, cardsStudied |-> 0, totalCorrect |-> 0,
     completedAt |-> NoDate]

IdleRequest ==
    [pc |-> "idle", userId |-> "", topic |-> CHOOSE t \in TopicInputs : t.kind = "undefined",
     numberOfCards |-> 0,
     studyModuleLimit |-> NoStudyModuleLimit, aiCardsLimit |-> NoAICardsLimit,
     options |-> 0, startedAt |-> 0, generated |-> 0, savedModuleId |-> 0,
     rateLimitInfo |-> NoRateLimitInfo,
     route |-> "", content |-> NoContent, adapterOptions |-> NoOptions,
     params |-> 0, cardsStudied |-> 0, moduleId |-> 0,
     correctAnswers |-> 0, currentCardIndex |-> NoIndex, totalCards |-> 0,
     progress |-> NoProgress]

\* a response body without limit.resetTime, and one with it
NoResetTime == [hasResetTime |-> FALSE, resetTime |-> 0]
ResetTime(t) == [hasResetTime |-> TRUE, resetTime |-> t]

\* res.status(code).json(...): the response ends the request; none of the
\* bodies the route sends has a limit.resetTime
Respond(r, code) ==
    /\ res' = [res EXCEPT ![r] = code]
    /\ resBody' = [resBody EXCEPT ![r] = NoResetTime]
    /\ req' = [req EXCEPT ![r] = IdleRequest]

\* lines 17-37: the request arrives authenticated as userId, the body is
\* destructured (numberOfCards defaults to 20 when undefined) and both limit
\* checks are started
Receive(r, userId, body) ==
    /\ req[r].pc = "idle"
    /\ received' = received + 1
    /\ req' = [req EXCEPT ![r] =
                 [IdleRequest EXCEPT
                    !.pc = "checking",
                    !.userId = userId,
                    !.topic = body.topic,
                    !.numberOfCards =
                        IF body.numberOfCards.defined
                        THEN body.numberOfCards.value
                        ELSE DefaultNumberOfCards]]
    /\ res' = [res EXCEPT ![r] = 0]
    /\ resBody' = [resBody EXCEPT ![r] = NoResetTime]
    /\ UNCHANGED <<now, storeVars, factoryVars, providerRequests,
                   lastRequest, gen, lateGeneration, studyVars, adapterVars>>

\* line 35: the count query of checkStudyModuleDailyLimit is answered
CheckStudyModule(r) ==
    /\ req[r].pc = "checking"
    /\ ~req[r].studyModuleLimit.done
    /\ req' = [req EXCEPT ![r].studyModuleLimit =
                 checkStudyModuleDailyLimit(req[r].userId, now)]
    /\ UNCHANGED <<now, storeVars, res, resBody, received, factoryVars,
                   providerRequests, lastRequest, gen,
                   lateGeneration, studyVars, adapterVars>>

\* line 36: the count query of checkAICardsDailyLimit is answered
CheckAICards(r) ==
    /\ req[r].pc = "checking"
    /\ ~req[r].aiCardsLimit.done
    /\ req' = [req EXCEPT ![r].aiCardsLimit =
                 checkAICardsDailyLimit(req[r].userId, req[r].numberOfCards, now)]
    /\ UNCHANGED <<now, storeVars, res, resBody, received, factoryVars,
                   providerRequests, lastRequest, gen,
                   lateGeneration, studyVars, adapterVars>>

BothChecked(r) ==
    /\ req[r].pc = "checking"
    /\ req[r].studyModuleLimit.done
    /\ req[r].aiCardsLimit.done

\* lines 72-88: the reason the body is rejected, "" if it is accepted
ValidationError(r) ==
    LET topic == req[r].topic
        numberOfCards == req[r].numberOfCards
    IN IF topic.kind # "string" \/ topic.length = 0 \/ topic.trimLength = 0
       THEN "topic required"
       ELSE IF topic.length > MaxTopicLength
       THEN "topic too long"
       ELSE IF numberOfCards # 0
               /\ (numberOfCards < MinNumberOfCards \/ numberOfCards > MaxNumberOfCards)
       THEN "number of cards"
       ELSE ""

\* line 96: numberOfCards || 20
OptionsNumberOfCards(numberOfCards) ==
    IF numberOfCards # 0 THEN numberOfCards ELSE DefaultNumberOfCards

Admitted(r) ==
    /\ BothChecked(r)
    /\ req[r].studyModuleLimit.allowed
    /\ req[r].aiCardsLimit.allowed

\* lines 40-51: 429, the study module limit is reached
DenyStudyModules(r) ==
    /\ BothChecked(r)
    /\ ~req[r].studyModuleLimit.allowed
    /\ Respond(r, 429)
    /\ UNCHANGED <<now, storeVars, received, factoryVars, providerRequests,
                   lastRequest, gen, lateGeneration, studyVars, adapterVars>>

\* variant: the AI card limit is looked at after the module was saved
DenyAICardsAfterSave(r) ==
    /\ BothChecked(r)
    /\ req[r].studyModuleLimit.allowed
    /\ ~req[r].aiCardsLimit.allowed
    /\ Respond(r, 429)
    /\ studyModules' = studyModules \cup
          {[id |-> nextId, userId |-> req[r].userId, createdAt |-> now,
            isAIGenerated |-> TRUE]}
    /\ nextId' = nextId + 1
    /\ UNCHANGED <<now, flashcards, received, factoryVars, providerRequests,
                   lastRequest, gen, lateGeneration, studyVars, adapterVars>>

\* lines 54-66: 429, the AI card limit would be exceeded
DenyAICards(r) ==
    /\ BothChecked(r)
    /\ req[r].studyModuleLimit.allowed
    /\ ~req[r].aiCardsLimit.allowed
    /\ Respond(r, 429)
    /\ UNCHANGED <<now, storeVars, received, factoryVars, providerRequests,
                   lastRequest, gen, lateGeneration, studyVars, adapterVars>>

\* lines 72-88: 400, the body is invalid
RejectBody(r) ==
    /\ Admitted(r)
    /\ ValidationError(r) # ""
    /\ Respond(r, 400)
    /\ UNCHANGED <<now, storeVars, received, factoryVars, providerRequests,
                   lastRequest, gen, lateGeneration, studyVars, adapterVars>>

\* lines 91-114: the options are built, getAIService returns the adapter and
\* generateStudyModule is started (its first provider request is issued)
\* under the 2 minute timer
StartGeneration(r) ==
    /\ Admitted(r)
    /\ ValidationError(r) = ""
    /\ CallGetAIService
    /\ lastCall'.outcome = "returned"
    /\ req' = [req EXCEPT ![r].pc = "generating",
                          ![r].options = OptionsNumberOfCards(req[r].numberOfCards),
                          ![r].adapterOptions =
                              Options("generateStudyModule",
                                      OptionsNumberOfCards(req[r].numberOfCards),
                                      req[r].topic.trimLength, 0),
                          ![r].startedAt = now]
    /\ providerRequests' = providerRequests + 1
    /\ lastRequest' = ProviderRequest(lastCall'.instance)
    /\ UNCHANGED <<now, storeVars, res, resBody, received, gen, lateGeneration,
                   studyVars, adapterVars>>

\* line 110 throws: getAIService fails, the catch answers 500
ServiceUnavailable(r) ==
    /\ Admitted(r)
    /\ ValidationError(r) = ""
    /\ CallGetAIService
    /\ lastCall'.outcome = "threw"
    /\ Respond(r, 500)
    /\ UNCHANGED <<now, storeVars, received, providerRequests, lastRequest, gen,
                   lateGeneration, studyVars, adapterVars>>

\* lines 111-114: generateStudyModule resolves first, with k flashcards
GenerationResolves(r, k) ==
    /\ req[r].pc = "generating"
    /\ k \in GeneratedLengths(req[r].options)
    /\ req' = [req EXCEPT ![r].pc = "saveModule", ![r].generated = k]
    /\ UNCHANGED <<now, storeVars, res, resBody, received, factoryVars,
                   providerRequests, lastRequest, gen,
                   lateGeneration, studyVars, adapterVars>>

\* lines 111-114, 206-217: generateStudyModule rejects first, answer 500
GenerationRejects(r) ==
    /\ req[r].pc = "generating"
    /\ Respond(r, 500)
    /\ UNCHANGED <<now, storeVars, received, factoryVars, providerRequests,
                   lastRequest, gen, lateGeneration, studyVars, adapterVars>>

\* lines 103-108, 206-217: the timer fires first, answer 500; the result
\* that arrives later has no reader
GenerationTimesOut(r) ==
    /\ req[r].pc = "generating"
    /\ now >= req[r].startedAt + GenerationTimeoutMs
    /\ Respond(r, 500)
    /\ lateGeneration' = [lateGeneration EXCEPT ![r] = "pending"]
    /\ UNCHANGED <<now, storeVars, received, factoryVars, providerRequests,
                   lastRequest, gen, studyVars, adapterVars>>

\* variant: the result that arrives late is saved as if the handler went on
LateGenerationSettlesAndSaves(r) ==
    /\ lateGeneration[r] = "pending"
    /\ lateGeneration' = [lateGeneration EXCEPT ![r] = "discarded"]
    /\ studyModules' = studyModules \cup
          {[id |-> nextId, userId |-> "alice", createdAt |-> now, isAIGenerated |-> TRUE]}
    /\ nextId' = nextId + 1
    /\ UNCHANGED <<now, flashcards, req, res, resBody, received, factoryVars,
                   providerRequests,
                   lastRequest, gen, studyVars, adapterVars>>

\* lines 111-114: generateStudyModule settles after the timer has won the
\* race; the await has already thrown, so no code of the handler reads the
\* result or the error
LateGenerationSettles(r) ==
    /\ lateGeneration[r] = "pending"
    /\ lateGeneration' = [lateGeneration EXCEPT ![r] = "discarded"]
    /\ UNCHANGED <<now, storeVars, req, res, resBody, received, factoryVars,
                   providerRequests,
                   lastRequest, gen, studyVars, adapterVars>>

\* variant: the write checks the limit again and denies when it is reached
CreateStudyModuleRechecksLimit(r) ==
    /\ req[r].pc = "saveModule"
    /\ IF checkStudyModuleDailyLimit(req[r].userId, now).allowed
       THEN /\ studyModules' = studyModules \cup
                  {[id |-> nextId, userId |-> req[r].userId, createdAt |-> now,
                    isAIGenerated |-> TRUE]}
            /\ nextId' = nextId + 1
            /\ req' = [req EXCEPT ![r].pc = "saveCards", ![r].savedModuleId = nextId]
            /\ UNCHANGED <<res, resBody>>
       ELSE /\ Respond(r, 429)
            /\ UNCHANGED <<studyModules, nextId>>
    /\ UNCHANGED <<now, flashcards, received, factoryVars, providerRequests,
                   lastRequest, gen, lateGeneration, studyVars, adapterVars>>

\* lines 123-150: prisma.studyModule.create; createdAt is the store's clock
CreateStudyModule(r) ==
    /\ req[r].pc = "saveModule"
    /\ studyModules' = studyModules \cup
          {[id |-> nextId, userId |-> req[r].userId, createdAt |-> now,
            isAIGenerated |-> TRUE]}
    /\ nextId' = nextId + 1
    /\ req' = [req EXCEPT ![r].pc = "saveCards", ![r].savedModuleId = nextId]
    /\ UNCHANGED <<now, flashcards, res, resBody, received, factoryVars,
                   providerRequests, lastRequest, gen,
                   lateGeneration, studyVars, adapterVars>>

\* lines 123-150, 206-217: the create fails in the store, answer 500
CreateStudyModuleFails(r) ==
    /\ req[r].pc = "saveModule"
    /\ Respond(r, 500)
    /\ UNCHANGED <<now, storeVars, received, factoryVars, providerRequests,
                   lastRequest, gen, lateGeneration, studyVars, adapterVars>>

\* the flashcard rows of request r: written by this user, now, flagged
\* AI-generated, linked to the module saved before
FlashcardRow(r) ==
    [userId |-> req[r].userId, createdAt |-> now, isAIGenerated |-> TRUE,
     moduleId |-> req[r].savedModuleId]

\* j more copies of `row` in the table
InsertFlashcards(row, j) ==
    IF j = 0 THEN flashcards ELSE flashcards (+) (row :> j)

\* lines 153-205: every prisma.flashcard.create succeeds, answer 201
CreateFlashcards(r) ==
    /\ req[r].pc = "saveCards"
    /\ flashcards' = InsertFlashcards(FlashcardRow(r), req[r].generated)
    /\ Respond(r, 201)
    /\ UNCHANGED <<now, studyModules, nextId, received, factoryVars, providerRequests,
                   lastRequest, gen, lateGeneration, studyVars, adapterVars>>

\* numbers of creates that succeed when another one of the n fails
PartialLengths(n) == {0}

\* lines 153-184, 206-217: a create fails, Promise.all rejects and the catch
\* answers 500; the j creates that succeeded stay in the table
CreateFlashcardsFails(r, j) ==
    /\ req[r].pc = "saveCards"
    /\ req[r].generated > 0
    /\ j \in PartialLengths(req[r].generated)
    /\ flashcards' = InsertFlashcards(FlashcardRow(r), j)
    /\ Respond(r, 500)
    /\ UNCHANGED <<now, studyModules, nextId, received, factoryVars, providerRequests,
                   lastRequest, gen, lateGeneration, studyVars, adapterVars>>

\* time passes
Tick(t) ==
    /\ t \in TimePoints
    /\ t > now
    /\ now' = t
    /\ UNCHANGED <<storeVars, req, res, resBody, received, factoryVars,
                   providerRequests, lastRequest, gen,
                   lateGeneration, studyVars, adapterVars>>

(***************************************************************************)
(* The rate limit middlewares (middleware/rateLimit.ts): each runs the      *)
(* limit check for the authenticated user and either answers 429 or        *)
(* attaches req.rateLimitInfo and calls next().                            *)
(***************************************************************************)
\* getResetTime, as a function of the clock reading t: Date.UTC of the
\* calendar day after t's, at 00:00:00.000, as ms since the epoch
getResetTime(t) == (t - (t % MsPerDay)) + MsPerDay

\* req.body.numberOfCards of a request that passes checkAICardsRateLimit
MiddlewareCardInputs ==
    {n \in NumberOfCardsInputs : ~n.defined \/ n.value \in {0, 10, 30}}

\* line 61: req.body.numberOfCards || 5
MiddlewareNumberOfCards(n) ==
    IF n.defined /\ n.value # 0 THEN n.value ELSE MiddlewareDefaultCards

\* a request reaches checkStudyModuleRateLimit (lines 8-14)
ReceiveStudyModuleRateLimit(r, userId) ==
    /\ req[r].pc = "idle"
    /\ received' = received + 1
    /\ req' = [req EXCEPT ![r] =
                 [IdleRequest EXCEPT !.pc = "studyModuleRateLimit", !.userId = userId]]
    /\ res' = [res EXCEPT ![r] = 0]
    /\ resBody' = [resBody EXCEPT ![r] = NoResetTime]
    /\ UNCHANGED <<now, storeVars, factoryVars, providerRequests, lastRequest, gen,
                   lateGeneration, studyVars, adapterVars>>

\* a request reaches checkAICardsRateLimit (lines 51-61)
ReceiveAICardsRateLimit(r, userId, n) ==
    /\ req[r].pc = "idle"
    /\ received' = received + 1
    /\ req' = [req EXCEPT ![r] =
                 [IdleRequest EXCEPT !.pc = "aiCardsRateLimit", !.userId = userId,
                                     !.numberOfCards = MiddlewareNumberOfCards(n)]]
    /\ res' = [res EXCEPT ![r] = 0]
    /\ resBody' = [resBody EXCEPT ![r] = NoResetTime]
    /\ UNCHANGED <<now, storeVars, factoryVars, providerRequests, lastRequest, gen,
                   lateGeneration, studyVars, adapterVars>>

\* res.status(429).json({..., limit: {..., resetTime: getResetTime()}})
RespondLimitExceeded(r) ==
    /\ res' = [res EXCEPT ![r] = 429]
    /\ resBody' = [resBody EXCEPT ![r] = ResetTime(getResetTime(now))]
    /\ req' = [req EXCEPT ![r] = IdleRequest]

\* req.rateLimitInfo = {...}; return next(): the middleware sends no response
CallNext(r, type, remaining) ==
    /\ req' = [req EXCEPT ![r] =
                 [IdleRequest EXCEPT
                    !.rateLimitInfo = [type |-> type, remaining |-> remaining]]]
    /\ UNCHANGED <<res, resBody>>

\* lines 16-38: the count query of checkStudyModuleDailyLimit is answered
checkStudyModuleRateLimit(r) ==
    /\ req[r].pc = "studyModuleRateLimit"
    /\ LET limitCheck == checkStudyModuleDailyLimit(req[r].userId, now)
       IN IF ~limitCheck.allowed
          THEN RespondLimitExceeded(r)
          ELSE CallNext(r, "study_modules", limitCheck.remaining)
    /\ UNCHANGED <<now, storeVars, received, factoryVars, providerRequests,
                   lastRequest, gen, lateGeneration, studyVars, adapterVars>>

\* lines 63-85: the count query of checkAICardsDailyLimit is answered
checkAICardsRateLimit(r) ==
    /\ req[r].pc = "aiCardsRateLimit"
    /\ LET limitCheck ==
               checkAICardsDailyLimit(req[r].userId, req[r].numberOfCards, now)
       IN IF ~limitCheck.allowed
          THEN RespondLimitExceeded(r)
          ELSE CallNext(r, "ai_cards",
                        limitCheck.remaining - limitCheck.requestedCount)
    /\ UNCHANGED <<now, storeVars, received, factoryVars, providerRequests,
                   lastRequest, gen, lateGeneration, studyVars, adapterVars>>

(***************************************************************************)
(* The preview endpoints: POST /api/study-modules/ai/preview ("module"),   *)
(* POST /api/flashcards-ai/preview ("cards") and POST                      *)
(* /api/flashcards-ai/preview-from-topic ("topic"). None of them passes     *)
(* through the authenticate middleware.                                    *)
(***************************************************************************)
PreviewRoutes == {"module", "cards", "topic"}

\* the destructuring default of numberOfCards of a preview route
PreviewDefaultCards(route) ==
    CASE route = "module" -> DefaultNumberOfCards
      [] route = "cards" -> DefaultCardsFromContent
      [] route = "topic" -> DefaultCardsFromTopic

\* the request bodies of the preview routes: each topic or content with 10
\* cards, and a usual topic or content with each numberOfCards
PreviewBody(topic, content, n) ==
    [topic |-> topic, content |-> content, numberOfCards |-> n]
UsualContent == CHOOSE c \in ContentInputs : c.length = 40
TenCards == [defined |-> TRUE, value |-> 10]
PreviewBodies(route) ==
    IF route = "cards"
    THEN {PreviewBody(UsualTopic, c, TenCards) : c \in ContentInputs}
         \cup {PreviewBody(UsualTopic, UsualContent, n) : n \in NumberOfCardsInputs}
    ELSE {PreviewBody(t, NoContent, TenCards) : t \in TopicInputs}
         \cup {PreviewBody(UsualTopic, NoContent, n) : n \in NumberOfCardsInputs}

\* the handler of a preview route is entered and destructures the body
ReceivePreview(r, route, body) ==
    /\ req[r].pc = "idle"
    /\ received' = received + 1
    /\ req' = [req EXCEPT ![r] =
                 [IdleRequest EXCEPT
                    !.pc = "preview",
                    !.route = route,
                    !.topic = body.topic,
                    !.content = body.content,
                    !.numberOfCards =
                        IF body.numberOfCards.defined
                        THEN body.numberOfCards.value
                        ELSE PreviewDefaultCards(route)]]
    /\ res' = [res EXCEPT ![r] = 0]
    /\ resBody' = [resBody EXCEPT ![r] = NoResetTime]
    /\ UNCHANGED <<now, storeVars, factoryVars, providerRequests, lastRequest, gen,
                   lateGeneration, studyVars, adapterVars>>

\* !x || typeof x !== "string" || x.trim().length === 0
Blank(x) == x.kind # "string" \/ x.length = 0 \/ x.trimLength = 0

\* the reason a preview route rejects the body, "" if it is accepted:
\* study-modules.ts 235-245, flashcards-ai.ts 110-120 and 252-262
PreviewValidationError(r) ==
    LET numberOfCards == req[r].numberOfCards
    IN CASE req[r].route = "module" ->
              IF Blank(req[r].topic) THEN "topic required"
              ELSE IF numberOfCards # 0
                      /\ (numberOfCards < MinNumberOfCards
                          \/ numberOfCards > MaxNumberOfCards)
              THEN "number of cards"
              ELSE ""
         [] req[r].route = "cards" ->
              IF Blank(req[r].content) THEN "content required"
              ELSE IF req[r].content.length > MaxContentLength
              THEN "content too long"
              ELSE ""
         [] req[r].route = "topic" ->
              IF Blank(req[r].topic) THEN "topic required"
              ELSE IF numberOfCards # 0
                      /\ (numberOfCards < MinCardsFromTopic
                          \/ numberOfCards > MaxCardsFromTopic)
              THEN "number of cards"
              ELSE ""

\* the options object a preview route builds: topic.trim() or
\* content.trim(), and numberOfCards || the default of the route
PreviewOptions(r) ==
    LET numberOfCards ==
            IF req[r].numberOfCards # 0 THEN req[r].numberOfCards
            ELSE PreviewDefaultCards(req[r].route)
    IN CASE req[r].route = "module" ->
              Options("generateStudyModule", numberOfCards, req[r].topic.trimLength, 0)
         [] req[r].route = "cards" ->
              Options("generateFlashcards", numberOfCards, 0, req[r].content.trimLength)
         [] req[r].route = "topic" ->
              Options("generateFlashcardsFromTopic", numberOfCards,
                      req[r].topic.trimLength, 0)

\* 400, the body is invalid
RejectPreview(r) ==
    /\ req[r].pc = "preview"
    /\ PreviewValidationError(r) # ""
    /\ Respond(r, 400)
    /\ UNCHANGED <<now, storeVars, received, factoryVars, providerRequests,
                   lastRequest, gen, lateGeneration, studyVars, adapterVars>>

\* getAIService() throws, the catch answers 500
PreviewServiceUnavailable(r) ==
    /\ req[r].pc = "preview"
    /\ PreviewValidationError(r) = ""
    /\ CallGetAIService
    /\ lastCall'.outcome = "threw"
    /\ Respond(r, 500)
    /\ UNCHANGED <<now, storeVars, received, providerRequests, lastRequest, gen,
                   lateGeneration, studyVars, adapterVars>>

\* getAIService() returns the adapter and its method is called with the
\* options (its first provider request is issued)
StartPreview(r) ==
    /\ req[r].pc = "preview"
    /\ PreviewValidationError(r) = ""
    /\ CallGetAIService
    /\ lastCall'.outcome = "returned"
    /\ req' = [req EXCEPT ![r].pc = "previewing",
                          ![r].adapterOptions = PreviewOptions(r)]
    /\ providerRequests' = providerRequests + 1
    /\ lastRequest' = ProviderRequest(lastCall'.instance)
    /\ UNCHANGED <<now, storeVars, res, resBody, received, gen, lateGeneration,
                   studyVars, adapterVars>>

\* variant: the preview is saved like a generated module
PreviewResolvesAndSaves(r) ==
    /\ req[r].pc = "previewing"
    /\ Respond(r, 200)
    /\ studyModules' = studyModules \cup
          {[id |-> nextId, userId |-> "alice", createdAt |-> now, isAIGenerated |-> TRUE]}
    /\ nextId' = nextId + 1
    /\ UNCHANGED <<now, flashcards, received, factoryVars, providerRequests,
                   lastRequest, gen, lateGeneration, studyVars, adapterVars>>

\* the adapter's promise resolves: res.json(...) with the generated data
PreviewResolves(r) ==
    /\ req[r].pc = "previewing"
    /\ Respond(r, 200)
    /\ UNCHANGED <<now, storeVars, received, factoryVars, providerRequests,
                   lastRequest, gen, lateGeneration, studyVars, adapterVars>>

\* the adapter's promise rejects: the catch answers 500
PreviewRejects(r) ==
    /\ req[r].pc = "previewing"
    /\ Respond(r, 500)
    /\ UNCHANGED <<now, storeVars, received, factoryVars, providerRequests,
                   lastRequest, gen, lateGeneration, studyVars, adapterVars>>

\* the steps of a preview request after its arrival
HandlePreview(r) ==
    \/ RejectPreview(r)
    \/ PreviewServiceUnavailable(r)
    \/ StartPreview(r)
    \/ PreviewResolves(r)
    \/ PreviewRejects(r)

(***************************************************************************)
(* The routes of flashcards-ai.ts that save what the adapter returns:      *)
(* POST /api/flashcards-ai/generate ("cards") and POST                     *)
(* /api/flashcards-ai/generate-from-topic ("topic"). Both pass through     *)
(* authenticate and nothing else.                                          *)
(***************************************************************************)
CardRoutes == {"cards", "topic"}

\* lines 17-27, 153-163: the handler is entered as userId and destructures
\* the body
ReceiveGenerateCards(r, userId, route, body) ==
    /\ req[r].pc = "idle"
    /\ route \in CardRoutes
    /\ received' = received + 1
    /\ req' = [req EXCEPT ![r] =
                 [IdleRequest EXCEPT
                    !.pc = "cardsRoute",
                    !.userId = userId,
                    !.route = route,
                    !.topic = body.topic,
                    !.content = body.content,
                    !.numberOfCards =
                        IF body.numberOfCards.defined
                        THEN body.numberOfCards.value
                        ELSE PreviewDefaultCards(route)]]
    /\ res' = [res EXCEPT ![r] = 0]
    /\ resBody' = [resBody EXCEPT ![r] = NoResetTime]
    /\ UNCHANGED <<now, storeVars, factoryVars, providerRequests, lastRequest, gen,
                   lateGeneration, studyVars, adapterVars>>

\* lines 29-39, 165-181: the reason the body is rejected, "" if accepted
GenerateCardsValidationError(r) ==
    LET numberOfCards == req[r].numberOfCards
    IN IF req[r].route = "cards"
       THEN IF Blank(req[r].content) THEN "content required"
            ELSE IF req[r].content.length > MaxContentLength THEN "content too long"
            ELSE ""
       ELSE IF Blank(req[r].topic) THEN "topic required"
            ELSE IF req[r].topic.length > MaxTopicLength THEN "topic too long"
            ELSE IF numberOfCards # 0
                    /\ (numberOfCards < MinCardsFromTopic
                        \/ numberOfCards > MaxCardsFromTopic)
            THEN "number of cards"
            ELSE ""

\* 400, the body is invalid
RejectGenerateCards(r) ==
    /\ req[r].pc = "cardsRoute"
    /\ GenerateCardsValidationError(r) # ""
    /\ Respond(r, 400)
    /\ UNCHANGED <<now, storeVars, received, factoryVars, providerRequests,
                   lastRequest, gen, lateGeneration, studyVars, adapterVars>>

\* lines 51, 193: getAIService() throws, the catch answers 500
GenerateCardsServiceUnavailable(r) ==
    /\ req[r].pc = "cardsRoute"
    /\ GenerateCardsValidationError(r) = ""
    /\ CallGetAIService
    /\ lastCall'.outcome = "threw"
    /\ Respond(r, 500)
    /\ UNCHANGED <<now, storeVars, received, providerRequests, lastRequest, gen,
                   lateGeneration, studyVars, adapterVars>>

\* lines 41-52, 183-194: the options are built, getAIService() returns the
\* adapter and generateFlashcards or generateFlashcardsFromTopic is called
StartGenerateCards(r) ==
    /\ req[r].pc = "cardsRoute"
    /\ GenerateCardsValidationError(r) = ""
    /\ CallGetAIService
    /\ lastCall'.outcome = "returned"
    /\ req' = [req EXCEPT ![r].pc = "cardsGenerating",
                          ![r].adapterOptions = PreviewOptions(r)]
    /\ providerRequests' = providerRequests + 1
    /\ lastRequest' = ProviderRequest(lastCall'.instance)
    /\ UNCHANGED <<now, storeVars, res, resBody, received, gen, lateGeneration,
                   studyVars, adapterVars>>

\* the adapter resolves with k cards
GenerateCardsResolves(r, k) ==
    /\ req[r].pc = "cardsGenerating"
    /\ k \in GeneratedLengths(req[r].adapterOptions.numberOfCards)
    /\ req' = [req EXCEPT ![r].pc = "cardsSaving", ![r].generated = k]
    /\ UNCHANGED <<now, storeVars, res, resBody, received, factoryVars,
                   providerRequests, lastRequest, gen, lateGeneration, studyVars,
                   adapterVars>>

\* the adapter rejects: the catch answers 500
GenerateCardsRejects(r) ==
    /\ req[r].pc = "cardsGenerating"
    /\ Respond(r, 500)
    /\ UNCHANGED <<now, storeVars, received, factoryVars, providerRequests,
                   lastRequest, gen, lateGeneration, studyVars, adapterVars>>

\* lines 55-80, 197-222: a row the route creates: the user's, without
\* isAIGenerated (false by default) and without module
GeneratedCardRow(r) ==
    [userId |-> req[r].userId, createdAt |-> now, isAIGenerated |-> FALSE,
     moduleId |-> 0]

\* lines 54-92, 196-232: every prisma.flashcard.create succeeds, answer 201
SaveGeneratedCards(r) ==
    /\ req[r].pc = "cardsSaving"
    /\ flashcards' = InsertFlashcards(GeneratedCardRow(r), req[r].generated)
    /\ Respond(r, 201)
    /\ UNCHANGED <<now, studyModules, nextId, received, factoryVars, providerRequests,
                   lastRequest, gen, lateGeneration, studyVars, adapterVars>>

\* a create fails, Promise.all rejects and the catch answers 500
SaveGeneratedCardsFails(r) ==
    /\ req[r].pc = "cardsSaving"
    /\ req[r].generated > 0
    /\ Respond(r, 500)
    /\ UNCHANGED <<now, storeVars, received, factoryVars, providerRequests,
                   lastRequest, gen, lateGeneration, studyVars, adapterVars>>

\* the steps of a request to one of the two routes after its arrival
HandleGenerateCards(r) ==
    \/ RejectGenerateCards(r)
    \/ GenerateCardsServiceUnavailable(r)
    \/ StartGenerateCards(r)
    \/ \E k \in 0 .. MaxNumberOfCards : GenerateCardsResolves(r, k)
    \/ GenerateCardsRejects(r)
    \/ SaveGeneratedCards(r)
    \/ SaveGeneratedCardsFails(r)

(***************************************************************************)
(* The study session routes (routes/study.ts) and the flashcard routes     *)
(* (routes/flashcards.ts). Every route passes through authenticate; the    *)
(* request carries the user id, the :id parameter and the body. Here each  *)
(* flashcard row carries its id and its question.                          *)
(***************************************************************************)
\* no query has touched a row yet
NoAccess == [userId |-> "", table |-> "", op |-> "", owner |-> ""]

\* a query of user userId touched a row of `table` owned by `owner` ("" when
\* the query matched no row)
Access(userId, table, op, owner) ==
    [userId |-> userId, table |-> table, op |-> op, owner |-> owner]

StudyRoutes ==
    {"postSession", "getSession", "putSession", "putFlashcard", "deleteFlashcard"}

\* req.params.id, and the cardsStudied and moduleId of the body (0: absent)
RowIds == 1 .. 3
StudyBody(cardsStudied, correctAnswers, moduleId, currentCardIndex) ==
    [cardsStudied |-> cardsStudied, correctAnswers |-> correctAnswers,
     moduleId |-> moduleId, currentCardIndex |-> currentCardIndex]
StudyBodies ==
    {StudyBody(c, IF c = 0 THEN 0 ELSE 3, m, NoIndex) : c \in {0, 5}, m \in {0, 1}}

\* the handler of a study or flashcard route is entered
ReceiveStudy(r, userId, route, id, body) ==
    /\ req[r].pc = "idle"
    /\ route \in StudyRoutes
    /\ route = "postSession" => Cardinality(studySessions) < MaxSessions
    /\ received' = received + 1
    /\ req' = [req EXCEPT ![r] =
                 [IdleRequest EXCEPT
                    !.pc = route,
                    !.userId = userId,
                    !.params = id,
                    !.cardsStudied = body.cardsStudied,
                    !.correctAnswers = body.correctAnswers,
                    !.currentCardIndex = body.currentCardIndex,
                    !.moduleId = body.moduleId]]
    /\ res' = [res EXCEPT ![r] = 0]
    /\ resBody' = [resBody EXCEPT ![r] = NoResetTime]
    /\ UNCHANGED <<now, storeVars, factoryVars, providerRequests, lastRequest, gen,
                   lateGeneration, studyVars, adapterVars>>

\* the flashcard rows with the given id
FlashcardsWithId(id) == {c \in DOMAIN flashcards : c.id = id}

\* study.ts lines 9-98, POST /session: studySession.create for the user,
\* then the user's flashcards and progress are read; 201
PostSession(r) ==
    /\ req[r].pc = "postSession"
    /\ studySessions' = studySessions \cup
          {[id |-> Cardinality(studySessions) + 1, userId |-> req[r].userId,
            cardsStudied |-> 0, completed |-> FALSE]}
    /\ lastAccess' = Access(req[r].userId, "studySession", "create", req[r].userId)
    /\ Respond(r, 201)
    /\ UNCHANGED <<now, storeVars, received, factoryVars, providerRequests,
                   lastRequest, gen, lateGeneration, moduleProgress, adapterVars>>

\* study.ts lines 141-168, GET /session/:id: findFirst({id, userId})
GetSession(r) ==
    /\ req[r].pc = "getSession"
    /\ LET found == {s \in studySessions :
                        s.id = req[r].params /\ s.userId = req[r].userId}
       IN IF found = {}
          THEN /\ lastAccess' = Access(req[r].userId, "studySession", "read", "")
               /\ Respond(r, 404)
          ELSE /\ lastAccess' =
                     Access(req[r].userId, "studySession", "read",
                            (CHOOSE s \in found : TRUE).userId)
               /\ Respond(r, 200)
    /\ UNCHANGED <<now, storeVars, received, factoryVars, providerRequests,
                   lastRequest, gen, lateGeneration, studySessions, moduleProgress,
                   adapterVars>>

\* study.ts lines 171-192, PUT /session/:id: studySession.update({where:
\* {id}}) with cardsStudied || 0 and completedAt; update throws when no row
\* has the id and the catch answers 500
UpdateStudySession(r) ==
    /\ req[r].pc = "putSession"
    /\ LET found == {s \in studySessions : s.id = req[r].params}
       IN IF found = {}
          THEN /\ lastAccess' = Access(req[r].userId, "studySession", "update", "")
               /\ Respond(r, 500)
               /\ UNCHANGED studySessions
          ELSE LET session == CHOOSE s \in found : TRUE
               IN /\ studySessions' = (studySessions \ {session}) \cup
                        {[session EXCEPT !.cardsStudied = req[r].cardsStudied,
                                         !.completed = TRUE]}
                  /\ lastAccess' =
                        Access(req[r].userId, "studySession", "update", session.userId)
                  /\ IF req[r].moduleId # 0
                     THEN /\ req' = [req EXCEPT ![r].pc = "putProgress"]
                          /\ UNCHANGED <<res, resBody>>
                     ELSE Respond(r, 200)
    /\ UNCHANGED <<now, storeVars, received, factoryVars, providerRequests,
                   lastRequest, gen, lateGeneration, moduleProgress, adapterVars>>

\* the progress rows of the user and the module (at most one: the unique
\* index module_progress_userId_moduleId_key)
ProgressRows(userId, moduleId) ==
    {p \in moduleProgress : p.userId = userId /\ p.moduleId = moduleId}

\* study.ts lines 195-209: flashcard.count({moduleId, userId}), then
\* moduleProgress.findUnique({userId_moduleId}); the handler keeps both
\* results in locals (the flashcards do not change in between)
ReadModuleProgress(r) ==
    /\ req[r].pc = "putProgress"
    /\ LET found == ProgressRows(req[r].userId, req[r].moduleId)
           totalCards ==
               SumBag(flashcards,
                      {c \in DOMAIN flashcards :
                          c.moduleId = req[r].moduleId /\ c.userId = req[r].userId})
       IN IF found = {}
          THEN /\ req' = [req EXCEPT ![r].pc = "writeProgress",
                                     ![r].totalCards = totalCards,
                                     ![r].progress = NoProgress]
               /\ lastAccess' = Access(req[r].userId, "moduleProgress", "read", "")
          ELSE LET progress == CHOOSE p \in found : TRUE
               IN /\ req' = [req EXCEPT
                               ![r].pc = "writeProgress",
                               ![r].totalCards = totalCards,
                               ![r].progress =
                                   [found |-> TRUE,
                                    currentCardIndex |-> progress.currentCardIndex,
                                    cardsStudied |-> progress.cardsStudied,
                                    totalCorrect |-> progress.totalCorrect,
                                    completedAt |-> progress.completedAt]]
                  /\ lastAccess' =
                        Access(req[r].userId, "moduleProgress", "read", progress.userId)
    /\ UNCHANGED <<now, storeVars, res, resBody, received, factoryVars, providerRequests,
                   lastRequest, gen, lateGeneration, studySessions, moduleProgress,
                   adapterVars>>

\* lines 211-219: the values the handler computes from the row it read
finalCardIndex(r) ==
    IF req[r].currentCardIndex.defined THEN req[r].currentCardIndex.value
    ELSE req[r].progress.currentCardIndex
updatedCardsStudied(r) == req[r].progress.cardsStudied + req[r].cardsStudied
updatedTotalCorrect(r) == req[r].progress.totalCorrect + req[r].correctAnswers
isCompleted(r) == finalCardIndex(r) >= req[r].totalCards - 1

\* lines 221-236: the data of moduleProgress.update, written over the row
\* stored now
WrittenProgress(r, stored) ==
    [stored EXCEPT
       !.currentCardIndex = finalCardIndex(r),
       !.cardsStudied = updatedCardsStudied(r),
       !.totalCorrect = updatedTotalCorrect(r),
       !.completedAt = IF isCompleted(r) /\ ~req[r].progress.completedAt.set
                       THEN DateAt(now) ELSE req[r].progress.completedAt]

\* lines 238-250: the data of moduleProgress.create
CreatedProgress(r) ==
    [userId |-> req[r].userId, moduleId |-> req[r].moduleId,
     currentCardIndex |-> finalCardIndex(r),
     cardsStudied |-> updatedCardsStudied(r),
     totalCorrect |-> updatedTotalCorrect(r),
     completedAt |-> IF isCompleted(r) THEN DateAt(now) ELSE NoDate]

\* lines 221-263: the row read is updated, or a row is created when none was
\* read; 200. The update throws when the row is gone, the create throws on
\* the unique index when a row is there by now; the catch answers 500
WriteModuleProgress(r) ==
    /\ req[r].pc = "writeProgress"
    /\ LET stored == ProgressRows(req[r].userId, req[r].moduleId)
       IN IF req[r].progress.found
          THEN IF stored = {}
               THEN /\ UNCHANGED moduleProgress
                    /\ lastAccess' =
                          Access(req[r].userId, "moduleProgress", "update", "")
                    /\ Respond(r, 500)
               ELSE LET row == CHOOSE p \in stored : TRUE
                    IN /\ moduleProgress' =
                             (moduleProgress \ {row}) \cup {WrittenProgress(r, row)}
                       /\ lastAccess' =
                             Access(req[r].userId, "moduleProgress", "update", row.userId)
                       /\ Respond(r, 200)
          ELSE IF stored # {}
               THEN /\ UNCHANGED moduleProgress
                    /\ lastAccess' =
                          Access(req[r].userId, "moduleProgress", "create", "")
                    /\ Respond(r, 500)
               ELSE /\ moduleProgress' = moduleProgress \cup {CreatedProgress(r)}
                    /\ lastAccess' =
                          Access(req[r].userId, "moduleProgress", "create", req[r].userId)
                    /\ Respond(r, 200)
    /\ UNCHANGED <<now, storeVars, received, factoryVars, providerRequests,
                   lastRequest, gen, lateGeneration, studySessions, adapterVars>>

\* flashcards.ts lines 114-121 and 162-169: findFirst({id, userId}); 404 when
\* the user has no such card
FindFlashcard(r) ==
    /\ req[r].pc \in {"putFlashcard", "deleteFlashcard"}
    /\ LET existing == {c \in FlashcardsWithId(req[r].params) :
                           c.userId = req[r].userId}
       IN IF existing = {}
          THEN /\ lastAccess' = Access(req[r].userId, "flashcard", "read", "")
               /\ Respond(r, 404)
          ELSE /\ lastAccess' =
                     Access(req[r].userId, "flashcard", "read",
                            (CHOOSE c \in existing : TRUE).userId)
               /\ req' = [req EXCEPT ![r].pc =
                            IF req[r].pc = "putFlashcard"
                            THEN "updateFlashcard" ELSE "removeFlashcard"]
               /\ UNCHANGED <<res, resBody>>
    /\ UNCHANGED <<now, storeVars, received, factoryVars, providerRequests,
                   lastRequest, gen, lateGeneration, studySessions, moduleProgress,
                   adapterVars>>

\* flashcards.ts lines 123-149: flashcard.update({where: {id}}); it throws
\* when the row is gone and the catch answers 500
UpdateFlashcard(r) ==
    /\ req[r].pc = "updateFlashcard"
    /\ LET found == FlashcardsWithId(req[r].params)
       IN IF found = {}
          THEN /\ lastAccess' = Access(req[r].userId, "flashcard", "update", "")
               /\ Respond(r, 500)
               /\ UNCHANGED flashcards
          ELSE LET card == CHOOSE c \in found : TRUE
                   edited == [card EXCEPT !.question = "edited"]
               IN /\ flashcards' =
                        [c \in (DOMAIN flashcards \ {card}) \cup {edited} |-> 1]
                  /\ lastAccess' =
                        Access(req[r].userId, "flashcard", "update", card.userId)
                  /\ Respond(r, 200)
    /\ UNCHANGED <<now, studyModules, nextId, received, factoryVars, providerRequests,
                   lastRequest, gen, lateGeneration, studySessions, moduleProgress,
                   adapterVars>>

\* flashcards.ts lines 171-175: flashcard.delete({where: {id}}); it throws
\* when the row is gone and the catch answers 500
DeleteFlashcard(r) ==
    /\ req[r].pc = "removeFlashcard"
    /\ LET found == FlashcardsWithId(req[r].params)
       IN IF found = {}
          THEN /\ lastAccess' = Access(req[r].userId, "flashcard", "delete", "")
               /\ Respond(r, 500)
               /\ UNCHANGED flashcards
          ELSE LET card == CHOOSE c \in found : TRUE
               IN /\ flashcards' = [c \in DOMAIN flashcards \ {card} |-> 1]
                  /\ lastAccess' =
                        Access(req[r].userId, "flashcard", "delete", card.userId)
                  /\ Respond(r, 200)
    /\ UNCHANGED <<now, studyModules, nextId, received, factoryVars, providerRequests,
                   lastRequest, gen, lateGeneration, studySessions, moduleProgress,
                   adapterVars>>

\* the steps of a study or flashcard request after its arrival
HandleStudy(r) ==
    \/ PostSession(r)
    \/ GetSession(r)
    \/ UpdateStudySession(r)
    \/ ReadModuleProgress(r)
    \/ WriteModuleProgress(r)
    \/ FindFlashcard(r)
    \/ UpdateFlashcard(r)
    \/ DeleteFlashcard(r)

(***************************************************************************)
(* generateFlashcards of an adapter (services/openai.service.ts, lines     *)
(* 111-164; the Vertex adapter maps the reply the same way, lines          *)
(* 560-572).  The provider is a stub that answers with an error, with a    *)
(* text that is no JSON, with JSON that is no array, or with an array of   *)
(* cards.                                                                  *)
(***************************************************************************)
\* card.options in the reply: absent, null, or an array of some length
NoCardOptions == [kind |-> "undefined", length |-> 0]
CardOptions ==
    {NoCardOptions, [kind |-> "null", length |-> 0]}
    \cup {[kind |-> "array", length |-> n] : n \in {0, 3, 4}}

\* a card of the reply; "" stands for a missing (or empty) string
ProviderCard(question, questionType, difficultyLevel, options) ==
    [question |-> question, questionType |-> questionType,
     difficultyLevel |-> difficultyLevel, options |-> options]
ProviderCards ==
    {ProviderCard("asked", t, "", o) :
        t \in {"", "multiple_choice", "short_answer"}, o \in CardOptions}
    \cup {ProviderCard("", "true_false", "advanced", NoCardOptions)}

\* the replies: arrays of at most MaxReplyCards cards, and the replies that
\* are not an array
CardReplies ==
    {[json |-> "array", cards |-> cards] :
        cards \in UNION {[1 .. n -> ProviderCards] : n \in 0 .. MaxReplyCards}}
    \cup {[json |-> j, cards |-> <<>>] : j \in {"invalid", "object"}}

\* x || undefined  of card.options: null becomes undefined, an array (also
\* an empty one) is kept
optionsOrUndefined(options) ==
    IF options.kind = "array" THEN options ELSE NoCardOptions

\* lines 150-156: the map over the cards of the reply
mapCard(card, difficultyLevel) ==
    [question |-> card.question,
     questionType |-> IF card.questionType # "" THEN card.questionType
                      ELSE "short_answer",
     difficultyLevel |-> IF card.difficultyLevel # "" THEN card.difficultyLevel
                         ELSE difficultyLevel,
     options |-> optionsOrUndefined(card.options)]

IdleCardsCall ==
    [pc |-> "idle", difficultyLevel |-> "", reply |-> [json |-> "none", cards |-> <<>>],
     outcome |-> "none", flashcards |-> <<>>]

cardsFrame ==
    UNCHANGED <<now, storeVars, req, res, resBody, received, factoryVars, gen,
                lateGeneration, studyVars, script, genVertex>>

\* lines 111-143: generateFlashcards(options) sends its request;
\* difficultyLevel is the option or its default "intermediate"
CallGenerateFlashcards(difficultyLevel) ==
    /\ cardsCall.pc = "idle"
    /\ cardsCall' = [cardsCall EXCEPT !.pc = "request",
                                      !.difficultyLevel = difficultyLevel]
    /\ providerRequests' = providerRequests + 1
    /\ lastRequest' = makeRequest
    /\ cardsFrame

\* lines 60-63, 157-162: the provider answers with an error, rethrown
CardsRequestFails ==
    /\ cardsCall.pc = "request"
    /\ cardsCall' = [cardsCall EXCEPT !.pc = "done", !.outcome = "threw"]
    /\ UNCHANGED <<providerRequests, lastRequest>>
    /\ cardsFrame

\* lines 144-156: the reply is parsed; a reply that is no JSON array throws,
\* an array is mapped card by card
CardsReplyArrives(reply) ==
    /\ cardsCall.pc = "request"
    /\ cardsCall' =
          IF reply.json # "array"
          THEN [cardsCall EXCEPT !.pc = "done", !.reply = reply, !.outcome = "threw"]
          ELSE [cardsCall EXCEPT
                  !.pc = "done", !.reply = reply, !.outcome = "returned",
                  !.flashcards =
                      [k \in 1 .. Len(reply.cards) |->
                          mapCard(reply.cards[k], cardsCall.difficultyLevel)]]
    /\ UNCHANGED <<providerRequests, lastRequest>>
    /\ cardsFrame

(***************************************************************************)
(* generateStudyModule of an adapter (services/openai.service.ts; the      *)
(* Vertex adapter runs the same steps): one structure request, one card    *)
(* request per learning-plan entry, one backfill request.  The provider is *)
(* a stub: each request fails or is answered with a reply the action       *)
(* chooses.  A card is the pair <<number of the call, index in its reply>>.*)
(***************************************************************************)
\* options.numberOfCards of the calls
TotalCardsInputs == {5, 10}
\* the flashcardsCount values of the learning plans the stub answers with
\* (0 stands for a missing or zero count: both are falsy)
LearningPlans == {<<>>, <<5, 5>>, <<3, 3>>, <<0, 5>>, <<5, 5, 5>>, <<12>>}

\* a parsed plan: which of title, topics, learningPlan it has, the number of
\* topics and the flashcardsCount of each learning-plan entry
Plan(title, hasTopics, topics, hasLearningPlan, counts) ==
    [title |-> title, hasTopics |-> hasTopics, topics |-> topics,
     hasLearningPlan |-> hasLearningPlan, learningPlan |-> counts]
NoPlan == Plan(FALSE, FALSE, 0, FALSE, <<>>)
Plans ==
    {Plan(TRUE, TRUE, t, TRUE, c) : t \in {2, 3}, c \in LearningPlans}
    \cup {Plan(TRUE, TRUE, 0, TRUE, <<5, 5>>),
          Plan(FALSE, TRUE, 2, TRUE, <<5, 5>>),
          Plan(TRUE, FALSE, 0, TRUE, <<5, 5>>),
          Plan(TRUE, TRUE, 2, FALSE, <<>>)}

\* the text of a structure reply: an optional markdown fence around a body
\* that is no JSON, the JSON null, or a JSON object
Reply(fence, json, plan) == [fence |-> fence, json |-> json, plan |-> plan]
NoReply == Reply("none", "none", NoPlan)
\* no fence, a fence tagged json, a fence without a tag, a fence tagged js
Fences == {"none", "json", "bare", "js"}
StructureReplies ==
    {Reply("none", "object", plan) : plan \in Plans}
    \cup {Reply(f, "object", Plan(TRUE, TRUE, 2, TRUE, <<5, 5>>)) : f \in Fences}
    \cup {Reply(f, "invalid", NoPlan) : f \in Fences}
    \cup {Reply("none", "null", NoPlan)}

\* extractJSON: the text is trimmed, a leading fence tagged json or else
\* every fence mark is removed, and JSON.parse runs on the rest (the tag of
\* a fence other than json stays in the text, which then is no JSON)
extractJSON(reply) ==
    LET rest == IF reply.fence = "js" THEN "invalid" ELSE reply.json
    IN [threw |-> rest = "invalid", isNull |-> rest = "null", plan |-> reply.plan]

\* variant: only the title of the plan is required
PlanIsValidTitleOnly(parsed) ==
    /\ ~parsed.isNull
    /\ parsed.plan.title

\* line 226: the plan passes  !title || !topics || !learningPlan  (reading a
\* property of null throws)
PlanIsValid(parsed) ==
    /\ ~parsed.isNull
    /\ parsed.plan.title
    /\ parsed.plan.hasTopics
    /\ parsed.plan.hasLearningPlan

\* Math.max(2, Math.floor(totalCardsNeeded / topics.length)); the division
\* by the length 0 of an empty topics array gives Infinity, here a number no
\* request reaches
cardsPerTopic(total, plan) ==
    IF plan.topics = 0 THEN total + MaxNumberOfCards
    ELSE Max(2, total \div plan.topics)

\* variant: an entry is asked for its own count, whatever is still missing
cardsForThisTopicOwnCount(g) ==
    LET count == g.reply.plan.learningPlan[g.i]
    IN IF count # 0 THEN count
       ELSE cardsPerTopic(g.totalCardsNeeded, g.reply.plan)

\* Math.min(weekPlan.flashcardsCount || cardsPerTopic,
\*          totalCardsNeeded - allFlashcards.length)
cardsForThisTopic(g) ==
    LET count == g.reply.plan.learningPlan[g.i]
        wanted == IF count # 0 THEN count
                  ELSE cardsPerTopic(g.totalCardsNeeded, g.reply.plan)
        left == g.totalCardsNeeded - Len(g.allFlashcards)
    IN IF wanted <= left THEN wanted ELSE left

\* variant: nothing is cut off
sliceAll(list, end) == list

\* Array.prototype.slice(0, end)
slice(list, end) ==
    IF end >= 0
    THEN SubSeq(list, 1, IF end <= Len(list) THEN end ELSE Len(list))
    ELSE SubSeq(list, 1, Max(0, Len(list) + end))

\* lengths of the array a card request for asked cards is answered with:
\* the provider decides, generateFlashcards returns what it sent
ReturnedLengths(asked) == {m \in {0, asked - 1, asked, asked + 2} : m >= 0}

\* the cards of call number c answered with m cards
Cards(c, m) == [k \in 1 .. m |-> <<c, k>>]

\* the replies of the provider to one generateStudyModule call, in the order
\* of the requests: the structure request fails or is answered with a text,
\* and each card request fails or is answered with fewer cards than asked,
\* as many, or more
Script(failed, structure, cards) ==
    [failed |-> failed, structure |-> structure, cards |-> cards]
CardReplyKinds == {"fail", "short", "exact", "extra"}
\* no script: the adapters are not run against each other
NoScript == Script(FALSE, NoReply, <<>>)
Scripts ==
    {Script(FALSE, reply, cards) :
        reply \in StructureReplies, cards \in [1 .. MaxScriptCalls -> CardReplyKinds]}
    \cup {Script(TRUE, NoReply, [k \in 1 .. MaxScriptCalls |-> "exact"])}

\* the number of cards in a scripted reply to a request for asked cards
ScriptedLength(kind, asked) ==
    CASE kind = "short" -> asked - 1
      [] kind = "exact" -> asked
      [] kind = "extra" -> asked + 2
      [] OTHER -> 0

IdleGeneration ==
    [pc |-> "idle", totalCardsNeeded |-> 0, reply |-> NoReply, i |-> 0,
     allFlashcards |-> <<>>, calls |-> <<>>, outcome |-> "none",
     module |-> NoPlan, flashcards |-> <<>>]

\* every makeRequest of the adapter is a provider request
IssueRequest ==
    /\ providerRequests' = providerRequests + 1
    /\ lastRequest' = makeRequest
    /\ UNCHANGED <<now, storeVars, req, res, resBody, received, factoryVars,
                   lateGeneration, studyVars, adapterVars>>
NoRequestIssued ==
    UNCHANGED <<now, storeVars, req, res, resBody, received, factoryVars,
                providerRequests, lastRequest, lateGeneration, studyVars, adapterVars>>

\* the catch of generateStudyModule: the error is rethrown to the caller
Threw(g) == [g EXCEPT !.pc = "done", !.outcome = "threw"]

\* lines 181-222: generateStudyModule(options) sends the structure request
CallGenerateStudyModule(total) ==
    /\ gen.pc = "idle"
    /\ gen' = [gen EXCEPT !.pc = "structure", !.totalCardsNeeded = total]
    /\ IssueRequest

\* lines 60-63: the provider answers the structure request with an error
StructureRequestFails ==
    /\ gen.pc = "structure"
    /\ gen' = Threw(gen)
    /\ NoRequestIssued

\* lines 223-233: the reply is parsed and the plan is validated
StructureReplyArrives(reply) ==
    /\ gen.pc = "structure"
    /\ LET parsed == extractJSON(reply)
       IN gen' = IF parsed.threw \/ ~PlanIsValid(parsed)
                 THEN Threw([gen EXCEPT !.reply = reply])
                 ELSE [gen EXCEPT !.pc = "cards", !.reply = reply, !.i = 1]
    /\ NoRequestIssued

\* the loop is at an entry it sends a card request for
AtTopic(g) ==
    /\ g.pc = "cards"
    /\ g.i <= Len(g.reply.plan.learningPlan)
    /\ cardsForThisTopic(g) > 0

\* lines 235-243: the entries are used up, or  cardsForThisTopic <= 0: break
LoopEnds ==
    /\ gen.pc = "cards"
    /\ ~AtTopic(gen)
    /\ gen' = [gen EXCEPT !.pc = "backfill"]
    /\ NoRequestIssued

\* lines 245-255: the card request of entry i is answered with m cards
TopicCardsReturned(m) ==
    /\ AtTopic(gen)
    /\ m \in ReturnedLengths(cardsForThisTopic(gen))
    /\ gen' = [gen EXCEPT
                 !.allFlashcards = @ \o Cards(Len(gen.calls) + 1, m),
                 !.calls = Append(@, [kind |-> "topic", entry |-> gen.i,
                                      numberOfCards |-> cardsForThisTopic(gen),
                                      ok |-> TRUE, returned |-> m]),
                 !.i = @ + 1]
    /\ IssueRequest

\* variant: the failure of a card request is rethrown
TopicCardsFailAborts ==
    /\ AtTopic(gen)
    /\ gen' = Threw([gen EXCEPT
                 !.calls = Append(@, [kind |-> "topic", entry |-> gen.i,
                                      numberOfCards |-> cardsForThisTopic(gen),
                                      ok |-> FALSE, returned |-> 0])])
    /\ IssueRequest

\* variant: a failed card request of an entry is sent again
TopicCardsFailRetries ==
    /\ AtTopic(gen)
    /\ gen' = [gen EXCEPT
                 !.calls = Append(@, [kind |-> "topic", entry |-> gen.i,
                                      numberOfCards |-> cardsForThisTopic(gen),
                                      ok |-> FALSE, returned |-> 0])]
    /\ IssueRequest

\* lines 245-257: the card request of entry i fails; the catch logs it
TopicCardsFail ==
    /\ AtTopic(gen)
    /\ gen' = [gen EXCEPT
                 !.calls = Append(@, [kind |-> "topic", entry |-> gen.i,
                                      numberOfCards |-> cardsForThisTopic(gen),
                                      ok |-> FALSE, returned |-> 0]),
                 !.i = @ + 1]
    /\ IssueRequest

\* variant: a backfill is sent also when nothing is missing
NeedsBackfillAlways(g) == Len(g.allFlashcards) <= g.totalCardsNeeded

\* line 261: allFlashcards.length < totalCardsNeeded
NeedsBackfill(g) == Len(g.allFlashcards) < g.totalCardsNeeded

\* line 261 is false: no backfill request
NoBackfill ==
    /\ gen.pc = "backfill"
    /\ ~NeedsBackfill(gen)
    /\ gen' = [gen EXCEPT !.pc = "return"]
    /\ NoRequestIssued

\* lines 261-273: the backfill request for the missing cards is answered
BackfillReturned(m) ==
    /\ gen.pc = "backfill"
    /\ NeedsBackfill(gen)
    /\ LET remainingCards == gen.totalCardsNeeded - Len(gen.allFlashcards)
       IN /\ m \in ReturnedLengths(remainingCards)
          /\ gen' = [gen EXCEPT
                       !.pc = "return",
                       !.allFlashcards = @ \o Cards(Len(gen.calls) + 1, m),
                       !.calls = Append(@, [kind |-> "backfill", entry |-> 0,
                                            numberOfCards |-> remainingCards,
                                            ok |-> TRUE, returned |-> m])]
    /\ IssueRequest

\* variant: the failure of the backfill request is rethrown
BackfillFailsAborts ==
    /\ gen.pc = "backfill"
    /\ NeedsBackfill(gen)
    /\ gen' = Threw([gen EXCEPT
                 !.calls = Append(@, [kind |-> "backfill", entry |-> 0,
                                      numberOfCards |->
                                          gen.totalCardsNeeded - Len(gen.allFlashcards),
                                      ok |-> FALSE, returned |-> 0])])
    /\ IssueRequest

\* lines 261-276: the backfill request fails; the catch logs it
BackfillFails ==
    /\ gen.pc = "backfill"
    /\ NeedsBackfill(gen)
    /\ gen' = [gen EXCEPT
                 !.pc = "return",
                 !.calls = Append(@, [kind |-> "backfill", entry |-> 0,
                                      numberOfCards |->
                                          gen.totalCardsNeeded - Len(gen.allFlashcards),
                                      ok |-> FALSE, returned |-> 0])]
    /\ IssueRequest

\* lines 278-281: return {module, flashcards: allFlashcards.slice(0, total)}
ReturnStudyModule ==
    /\ gen.pc = "return"
    /\ gen' = [gen EXCEPT !.pc = "done", !.outcome = "returned",
                          !.module = gen.reply.plan,
                          !.flashcards = slice(gen.allFlashcards, gen.totalCardsNeeded)]
    /\ NoRequestIssued

(***************************************************************************)
(* generateStudyModule of the Vertex adapter (services/openai.service.ts,  *)
(* lines 603-722), as a function from the state of the call and the reply  *)
(* of the provider to the next state of the call.                          *)
(***************************************************************************)
\* lines 653-660: trim, remove the fence, JSON.parse
vertexParse(reply) ==
    LET moduleJsonText ==
            IF reply.fence = "json" THEN reply.json
            ELSE IF reply.fence \in {"bare", "js"}
            THEN (IF reply.fence = "js" THEN "invalid" ELSE reply.json)
            ELSE reply.json
    IN [threw |-> moduleJsonText = "invalid", isNull |-> moduleJsonText = "null",
        plan |-> reply.plan]

\* variant: every entry is asked for its own count, whatever is still missing
vertexCardsForThisTopicUncapped(g) ==
    LET count == g.reply.plan.learningPlan[g.i]
    IN IF count # 0 THEN count
       ELSE Max(2, g.totalCardsNeeded \div g.reply.plan.topics)

\* lines 664, 669: Math.min(weekPlan.flashcardsCount || cardsPerTopic,
\* totalCardsNeeded - allFlashcards.length)
vertexCardsForThisTopic(g) ==
    LET plan == g.reply.plan
        vertexCardsPerTopic ==
            IF plan.topics = 0 THEN g.totalCardsNeeded + MaxNumberOfCards
            ELSE Max(2, g.totalCardsNeeded \div plan.topics)
        count == plan.learningPlan[g.i]
        first == IF count # 0 THEN count ELSE vertexCardsPerTopic
        second == g.totalCardsNeeded - Len(g.allFlashcards)
    IN IF first < second THEN first ELSE second

\* the call record of a card request and the cards it adds
vertexCall(g, kind, entry, asked, reply) ==
    [g EXCEPT
       !.allFlashcards =
           IF reply = "fail" THEN @
           ELSE @ \o Cards(Len(g.calls) + 1, ScriptedLength(reply, asked)),
       !.calls = Append(@, [kind |-> kind, entry |-> entry, numberOfCards |-> asked,
                            ok |-> reply # "fail",
                            returned |-> IF reply = "fail" THEN 0
                                         ELSE ScriptedLength(reply, asked)])]

\* one step of the call: the structure reply, one turn of the loop (lines
\* 667-693), the backfill (695-710) or the return (712-715)
vertexStep(g, s) ==
    CASE g.pc = "structure" ->
            IF s.failed THEN [g EXCEPT !.pc = "done", !.outcome = "threw"]
            ELSE LET modulePlan == vertexParse(s.structure)
                 IN IF \/ modulePlan.threw
                       \/ modulePlan.isNull
                       \/ ~modulePlan.plan.title
                       \/ ~modulePlan.plan.hasTopics
                       \/ ~modulePlan.plan.hasLearningPlan
                    THEN [g EXCEPT !.pc = "done", !.outcome = "threw",
                                   !.reply = s.structure]
                    ELSE [g EXCEPT !.pc = "cards", !.reply = s.structure, !.i = 1]
      [] g.pc = "cards" ->
            IF g.i > Len(g.reply.plan.learningPlan) THEN [g EXCEPT !.pc = "backfill"]
            ELSE IF vertexCardsForThisTopic(g) <= 0 THEN [g EXCEPT !.pc = "backfill"]
            ELSE [vertexCall(g, "topic", g.i, vertexCardsForThisTopic(g),
                             s.cards[Len(g.calls) + 1])
                    EXCEPT !.i = g.i + 1]
      [] g.pc = "backfill" ->
            IF Len(g.allFlashcards) < g.totalCardsNeeded
            THEN [vertexCall(g, "backfill", 0,
                             g.totalCardsNeeded - Len(g.allFlashcards),
                             s.cards[Len(g.calls) + 1])
                    EXCEPT !.pc = "return"]
            ELSE [g EXCEPT !.pc = "return"]
      [] g.pc = "return" ->
            [g EXCEPT !.pc = "done", !.outcome = "returned", !.module = g.reply.plan,
                      !.flashcards =
                          SubSeq(g.allFlashcards, 1,
                                 IF g.totalCardsNeeded <= Len(g.allFlashcards)
                                 THEN g.totalCardsNeeded ELSE Len(g.allFlashcards))]

(***************************************************************************)
(* The initial state: no request, nothing constructed.  The environment is *)
(* either unconfigured or names a configured provider.  The store is empty *)
(* or holds what two or three requests of alice left at time 0: as many    *)
(* AI-generated modules, the first two with 10 flashcards each (the third  *)
(* request saved its module and none of its cards).                        *)
(***************************************************************************)
SeededModules(k) ==
    {[id |-> i, userId |-> "alice", createdAt |-> 0, isAIGenerated |-> TRUE] :
        i \in 1 .. k}
SeededFlashcards(k) ==
    [c \in {[userId |-> "alice", createdAt |-> 0, isAIGenerated |-> TRUE,
             moduleId |-> i] : i \in 1 .. k} |-> 10]
InitStores ==
    {[studyModules |-> {}, flashcards |-> EmptyBag, nextId |-> 1]}
    \cup {[studyModules |-> SeededModules(k), flashcards |-> SeededFlashcards(2),
           nextId |-> k + 1] : k \in 2 .. 3}

UnsetEnv == [name \in EnvNames |-> Unset]
InitEnvs ==
    {UnsetEnv,
     [UnsetEnv EXCEPT !["AI_PROVIDER"] = OPENAI, !["OPENAI_API_KEY"] = "sk-key"]}

Init ==
    /\ now = 0
    /\ \E store \in InitStores :
          /\ studyModules = store.studyModules
          /\ flashcards = store.flashcards
          /\ nextId = store.nextId
    /\ req = [r \in Slots |-> IdleRequest]
    /\ res = [r \in Slots |-> 0]
    /\ received = 0
    /\ env \in InitEnvs
    /\ aiServiceInstance = Null
    /\ serviceInstance = [p \in AIProvider |-> Null]
    /\ chatModel = FALSE
    /\ lastCall = NoCall
    /\ firstSinceReset = Null
    /\ providerRequests = 0
    /\ lastRequest = NoRequest
    /\ gen = IdleGeneration
    /\ lateGeneration = [r \in Slots |-> "none"]
    /\ resBody = [r \in Slots |-> NoResetTime]
    /\ studySessions = {}
    /\ moduleProgress = {}
    /\ lastAccess = NoAccess
    /\ cardsCall = IdleCardsCall
    /\ script = NoScript
    /\ genVertex = IdleGeneration

\* the steps of a request after its arrival
Handle(r) ==
    \/ CheckStudyModule(r)
    \/ CheckAICards(r)
    \/ DenyStudyModules(r)
    \/ DenyAICards(r)
    \/ RejectBody(r)
    \/ StartGeneration(r)
    \/ ServiceUnavailable(r)
    \/ \E k \in 0 .. MaxNumberOfCards : GenerationResolves(r, k)
    \/ GenerationRejects(r)
    \/ GenerationTimesOut(r)
    \/ LateGenerationSettles(r)
    \/ CreateStudyModule(r)
    \/ CreateStudyModuleFails(r)
    \/ CreateFlashcards(r)
    \/ \E j \in 0 .. MaxNumberOfCards : CreateFlashcardsFails(r, j)

\* a request arrives, whatever the other slots are doing
ReceiveOverlapping(r, userId, body) ==
    /\ received < MaxOverlapping
    /\ Receive(r, userId, body)

\* requests of any user arrive while others are in flight
Next ==
    \/ \E r \in Slots, userId \in Users, body \in ConcurrentBodies :
          ReceiveOverlapping(r, userId, body)
    \/ \E r \in Slots : Handle(r)
    \/ \E t \in TimePoints : Tick(t)

Spec == Init /\ [][Next]_vars

\* no request is in flight
AllIdle == \A r \in Slots : req[r].pc = "idle"

\* a request arrives only after the one before it was answered
ReceiveOneAtATime(r, userId, body) ==
    /\ AllIdle
    /\ received < MaxRequests
    /\ Receive(r, userId, body)

NextOneAtATime ==
    \/ \E userId \in Users, body \in Bodies : ReceiveOneAtATime(1, userId, body)
    \/ \E r \in Slots : Handle(r)
    \/ \E t \in TimePoints : Tick(t)

SpecOneAtATime == Init /\ [][NextOneAtATime]_vars

(***************************************************************************)
(* The callers of the limit checks together: requests reach the generate   *)
(* route or one of the two rate limit middlewares, one at a time.          *)
(***************************************************************************)
LimitCheckArrives ==
    /\ AllIdle
    /\ received < MaxLimitChecks

NextLimits ==
    \/ \E userId \in Users, body \in Bodies :
          LimitCheckArrives /\ Receive(1, userId, body)
    \/ \E userId \in Users :
          LimitCheckArrives /\ ReceiveStudyModuleRateLimit(1, userId)
    \/ \E userId \in Users, n \in MiddlewareCardInputs :
          LimitCheckArrives /\ ReceiveAICardsRateLimit(1, userId, n)
    \/ \E r \in Slots : Handle(r)
    \/ \E r \in Slots : checkStudyModuleRateLimit(r)
    \/ \E r \in Slots : checkAICardsRateLimit(r)
    \/ \E t \in TimePoints : Tick(t)

SpecLimits == Init /\ [][NextLimits]_vars

(***************************************************************************)
(* The AI routes together: requests reach the generate route or one of     *)
(* the three preview routes, one at a time.                                *)
(***************************************************************************)
AIRequestArrives ==
    /\ AllIdle
    /\ received < MaxAIRequests

NextAIRoutes ==
    \/ \E userId \in Users, body \in Bodies :
          AIRequestArrives /\ Receive(1, userId, body)
    \/ \E route \in PreviewRoutes :
          \E body \in PreviewBodies(route) :
             AIRequestArrives /\ ReceivePreview(1, route, body)
    \/ \E r \in Slots : Handle(r)
    \/ \E r \in Slots : HandlePreview(r)
    \/ \E t \in TimePoints : Tick(t)

SpecAIRoutes == Init /\ [][NextAIRoutes]_vars

(***************************************************************************)
(* The routes that save cards of the AI service: the generate route of the *)
(* study modules and the two generate routes of flashcards-ai.ts, one      *)
(* request at a time.                                                      *)
(***************************************************************************)
CardRequestArrives ==
    /\ AllIdle
    /\ received < MaxCardRequests

NextCardRoutes ==
    \/ \E userId \in Users, body \in Bodies :
          CardRequestArrives /\ Receive(1, userId, body)
    \/ \E userId \in Users, route \in CardRoutes :
          \E body \in PreviewBodies(route) :
             CardRequestArrives /\ ReceiveGenerateCards(1, userId, route, body)
    \/ \E r \in Slots : Handle(r)
    \/ \E r \in Slots : HandleGenerateCards(r)
    \/ \E t \in TimePoints : Tick(t)

SpecCardRoutes == Init /\ [][NextCardRoutes]_vars

(***************************************************************************)
(* The study session and flashcard routes: alice and bob each own a study  *)
(* session and a flashcard, and their requests overlap.                    *)
(***************************************************************************)
OwnedFlashcard(id, userId) ==
    [id |-> id, userId |-> userId, createdAt |-> 0, isAIGenerated |-> FALSE,
     moduleId |-> id, question |-> "asked"]

InitOwnership ==
    /\ now = 0
    /\ studyModules = {}
    /\ flashcards = [c \in {OwnedFlashcard(1, "alice"), OwnedFlashcard(2, "bob")} |-> 1]
    /\ nextId = 1
    /\ req = [r \in Slots |-> IdleRequest]
    /\ res = [r \in Slots |-> 0]
    /\ received = 0
    /\ env = UnsetEnv
    /\ aiServiceInstance = Null
    /\ serviceInstance = [p \in AIProvider |-> Null]
    /\ chatModel = FALSE
    /\ lastCall = NoCall
    /\ firstSinceReset = Null
    /\ providerRequests = 0
    /\ lastRequest = NoRequest
    /\ gen = IdleGeneration
    /\ lateGeneration = [r \in Slots |-> "none"]
    /\ resBody = [r \in Slots |-> NoResetTime]
    /\ studySessions =
          {[id |-> 1, userId |-> "alice", cardsStudied |-> 0, completed |-> FALSE],
           [id |-> 2, userId |-> "bob", cardsStudied |-> 0, completed |-> FALSE]}
    /\ moduleProgress = {}
    /\ lastAccess = NoAccess
    /\ cardsCall = IdleCardsCall
    /\ script = NoScript
    /\ genVertex = IdleGeneration

NextOwnership ==
    \/ \E r \in Slots, userId \in Users, route \in StudyRoutes, id \in RowIds,
          body \in StudyBodies :
          /\ received < MaxStudyRequests
          /\ ReceiveStudy(r, userId, route, id, body)
    \/ \E r \in Slots : HandleStudy(r)

SpecOwnership == InitOwnership /\ [][NextOwnership]_vars

(***************************************************************************)
(* The end of study sessions: alice has three cards in module 1 and two    *)
(* open sessions, with or without a progress row of an earlier session;    *)
(* her PUT /api/study/session/:id requests overlap.                        *)
(***************************************************************************)
ModuleFlashcard(id, userId, moduleId) ==
    [OwnedFlashcard(id, userId) EXCEPT !.moduleId = moduleId]

\* the progress row an earlier session of 5 cards, 3 of them right, left
EarlierProgress ==
    [userId |-> "alice", moduleId |-> 1, currentCardIndex |-> 0, cardsStudied |-> 5,
     totalCorrect |-> 3, completedAt |-> NoDate]

\* the bodies: 5 cards studied, 3 right, in module 1 with no index, the
\* first or the last index, or without module
ProgressBodies ==
    {StudyBody(5, 3, 1, i) : i \in {NoIndex, Index(0), Index(2)}}
    \cup {StudyBody(5, 3, 0, NoIndex)}

InitProgress ==
    /\ now = 0
    /\ studyModules = {}
    /\ flashcards = [c \in {ModuleFlashcard(i, "alice", 1) : i \in 1 .. 3} |-> 1]
    /\ nextId = 1
    /\ req = [r \in Slots |-> IdleRequest]
    /\ res = [r \in Slots |-> 0]
    /\ received = 0
    /\ env = UnsetEnv
    /\ aiServiceInstance = Null
    /\ serviceInstance = [p \in AIProvider |-> Null]
    /\ chatModel = FALSE
    /\ lastCall = NoCall
    /\ firstSinceReset = Null
    /\ providerRequests = 0
    /\ lastRequest = NoRequest
    /\ gen = IdleGeneration
    /\ lateGeneration = [r \in Slots |-> "none"]
    /\ resBody = [r \in Slots |-> NoResetTime]
    /\ studySessions =
          {[id |-> i, userId |-> "alice", cardsStudied |-> 0, completed |-> FALSE] :
              i \in 1 .. 2}
    /\ moduleProgress \in {{}, {EarlierProgress}}
    /\ lastAccess = NoAccess
    /\ cardsCall = IdleCardsCall
    /\ script = NoScript
    /\ genVertex = IdleGeneration

NextProgress ==
    \/ \E r \in Slots, id \in RowIds, body \in ProgressBodies :
          /\ received < MaxProgressRequests
          /\ ReceiveStudy(r, "alice", "putSession", id, body)
    \/ \E r \in Slots : UpdateStudySession(r)
    \/ \E r \in Slots : ReadModuleProgress(r)
    \/ \E r \in Slots : WriteModuleProgress(r)
    \/ \E t \in TimePoints : Tick(t)

SpecProgress == InitProgress /\ [][NextProgress]_vars

(***************************************************************************)
(* The rows the AI card counter reads: the generate route writes flagged   *)
(* cards into an AI-generated module, POST /api/flashcards writes cards    *)
(* made by hand, DELETE /api/study-modules/:id removes a module and the    *)
(* foreign key sets the moduleId of its cards to NULL; the clock crosses    *)
(* midnight.                                                               *)
(***************************************************************************)
\* a flashcard row made by hand: isAIGenerated defaults to false, no module
ManualFlashcardRow(userId) ==
    [userId |-> userId, createdAt |-> now, isAIGenerated |-> FALSE, moduleId |-> 0]

\* flashcards.ts lines 36-75, POST /: prisma.flashcard.create for the user
PostFlashcard(userId) ==
    /\ SumBag(flashcards, {c \in DOMAIN flashcards : ~c.isAIGenerated}) < MaxManualCards
    /\ flashcards' = InsertFlashcards(ManualFlashcardRow(userId), 1)
    /\ UNCHANGED <<now, studyModules, nextId, req, res, resBody, received, factoryVars,
                   providerRequests, lastRequest, gen, lateGeneration, studyVars,
                   adapterVars>>

\* ON DELETE SET NULL of flashcards_moduleId_fkey: the rows of the module
\* stay, without module
SetNullModule(id) ==
    LET unlinked(c) == IF c.moduleId = id THEN [c EXCEPT !.moduleId = 0] ELSE c
        rows == {unlinked(c) : c \in DOMAIN flashcards}
    IN [row \in rows |->
           SumBag(flashcards, {c \in DOMAIN flashcards : unlinked(c) = row})]

\* study-modules.ts lines 445-469, DELETE /:id: findFirst({id, userId}), then
\* delete by id
DeleteStudyModule(userId, id) ==
    /\ \E m \in studyModules : m.id = id /\ m.userId = userId
    /\ studyModules' = {m \in studyModules : m.id # id}
    /\ flashcards' = SetNullModule(id)
    /\ UNCHANGED <<now, nextId, req, res, resBody, received, factoryVars,
                   providerRequests, lastRequest, gen, lateGeneration, studyVars,
                   adapterVars>>

\* the bodies of the generate requests: 10 or 30 cards on a usual topic, or
\* no topic
CounterBodies ==
    {Body(UsualTopic, 10), Body(UsualTopic, 30), Body(IdleRequest.topic, 10)}

\* alice's requests of the day before left their rows
InitCounter ==
    /\ Init
    /\ studyModules # {}

NextCounter ==
    \/ \E userId \in Users, body \in CounterBodies :
          /\ AllIdle
          /\ received < MaxCounterRequests
          /\ Receive(1, userId, body)
    \/ Handle(1)
    \/ \E userId \in Users : PostFlashcard(userId)
    \/ \E userId \in Users, id \in 1 .. nextId : DeleteStudyModule(userId, id)
    \/ \E t \in TimePoints : Tick(t)

SpecCounter == InitCounter /\ [][NextCounter]_vars

(***************************************************************************)
(* The factory on its own: the environment changes, callers ask for the    *)
(* service, preview requests use it, and the instance is reset.            *)
(***************************************************************************)
routeVars ==
    <<now, studyModules, flashcards, nextId, req, res, received, gen, lateGeneration,
      resBody, studyVars, adapterVars>>

\* process.env[name] = value (or delete process.env[name])
SetEnv(name, value) ==
    /\ value \in EnvValues(name)
    /\ value # env[name]
    /\ env' = [env EXCEPT ![name] = value]
    /\ UNCHANGED <<aiServiceInstance, serviceInstance, chatModel, lastCall,
                   firstSinceReset, providerRequests, lastRequest>>
    /\ UNCHANGED routeVars

\* some caller runs getAIService()
GetAIServiceCalled ==
    /\ CallGetAIService
    /\ UNCHANGED <<providerRequests, lastRequest>>
    /\ UNCHANGED routeVars

\* some caller runs resetAIService()
ResetAIServiceCalled ==
    /\ resetAIService
    /\ UNCHANGED providerRequests
    /\ UNCHANGED routeVars

\* getChatModel of the Vertex adapter throws: the model is not initialised
\* and initializeVertexAI cannot read the credentials
getChatModelThrows == ~chatModel /\ getVertexAICredentialsThrows

\* POST /api/flashcards-ai/preview with a valid body: getAIService(), then
\* generateFlashcards on the adapter, which issues one provider request (the
\* Vertex adapter after getChatModel); a throw on the way is answered 500
PreviewFlashcardsWithin(cap) ==
    /\ providerRequests < cap
    /\ getAIService
    /\ firstSinceReset' =
          IF firstSinceReset = Null /\ lastCall'.outcome = "returned"
          THEN lastCall'.instance
          ELSE firstSinceReset
    /\ IF lastCall'.outcome = "threw"
       THEN UNCHANGED <<chatModel, providerRequests, lastRequest>>
       ELSE IF lastCall'.instance = Adapter(VERTEX_AI)
       THEN IF getChatModelThrows
            THEN UNCHANGED <<chatModel, providerRequests, lastRequest>>
            ELSE /\ chatModel' = TRUE
                 /\ providerRequests' = providerRequests + 1
                 /\ lastRequest' = ProviderRequest(lastCall'.instance)
       ELSE /\ providerRequests' = providerRequests + 1
            /\ lastRequest' = ProviderRequest(lastCall'.instance)
            /\ UNCHANGED chatModel
    /\ UNCHANGED env
    /\ UNCHANGED routeVars

PreviewFlashcards == PreviewFlashcardsWithin(MaxProviderRequests)

NextFactory ==
    \/ \E name \in CredentialEnvNames,
          value \in UNION {EnvValues(n) : n \in CredentialEnvNames} :
          SetEnv(name, value)
    \/ GetAIServiceCalled
    \/ ResetAIServiceCalled
    \/ PreviewFlashcards

\* the factory is exercised over the empty store
InitFactory ==
    /\ Init
    /\ studyModules = {}

SpecFactory == InitFactory /\ [][NextFactory]_vars

(***************************************************************************)
(* The configuration of the OpenAI adapter: the provider selection, the    *)
(* OpenAI key and the model override change while preview requests use the *)
(* service.                                                                *)
(***************************************************************************)
ConfigEnvNames == {"AI_PROVIDER", "OPENAI_API_KEY", "OPENAI_MODEL"}

NextConfig ==
    \/ \E name \in ConfigEnvNames,
          value \in UNION {EnvValues(n) : n \in ConfigEnvNames} :
          SetEnv(name, value)
    \/ GetAIServiceCalled
    \/ ResetAIServiceCalled
    \/ PreviewFlashcardsWithin(MaxConfigRequests)

SpecConfig == InitFactory /\ [][NextConfig]_vars

(***************************************************************************)
(* generateStudyModule on its own: one call on a constructed OpenAI        *)
(* adapter, against the stub provider.                                     *)
(***************************************************************************)
InitOrchestrator ==
    /\ InitFactory
    /\ env["AI_PROVIDER"] = OPENAI

NextOrchestrator ==
    \/ \E total \in TotalCardsInputs : CallGenerateStudyModule(total)
    \/ StructureRequestFails
    \/ \E reply \in StructureReplies : StructureReplyArrives(reply)
    \/ LoopEnds
    \/ \E m \in 0 .. MaxNumberOfCards : TopicCardsReturned(m)
    \/ TopicCardsFail
    \/ NoBackfill
    \/ \E m \in 0 .. MaxNumberOfCards : BackfillReturned(m)
    \/ BackfillFails
    \/ ReturnStudyModule

SpecOrchestrator == InitOrchestrator /\ [][NextOrchestrator]_vars

\* the steps of a call under way: the provider answers the pending request
\* or fails it, and the adapter runs on to its next await
CallProceeds ==
    \/ StructureRequestFails
    \/ \E reply \in StructureReplies : StructureReplyArrives(reply)
    \/ LoopEnds
    \/ \E m \in 0 .. MaxNumberOfCards : TopicCardsReturned(m)
    \/ TopicCardsFail
    \/ NoBackfill
    \/ \E m \in 0 .. MaxNumberOfCards : BackfillReturned(m)
    \/ BackfillFails
    \/ ReturnStudyModule

\* every provider request is answered or fails, and the event loop runs the
\* continuation of a settled await
SpecOrchestratorLive == SpecOrchestrator /\ WF_vars(CallProceeds)

(***************************************************************************)
(* generateFlashcards on its own, against the provider stub.               *)
(***************************************************************************)
NextFlashcards ==
    \/ \E difficultyLevel \in {"intermediate", "beginner"} :
          CallGenerateFlashcards(difficultyLevel)
    \/ CardsRequestFails
    \/ \E reply \in CardReplies : CardsReplyArrives(reply)

SpecFlashcards == InitOrchestrator /\ [][NextFlashcards]_vars

(***************************************************************************)
(* The two adapters against the same provider replies: the OpenAI adapter  *)
(* runs generateStudyModule against the script, then the Vertex adapter    *)
(* runs the same request against the same script.                          *)
(***************************************************************************)
vertexFrame ==
    UNCHANGED <<now, storeVars, req, res, resBody, received, factoryVars, gen,
                lateGeneration, studyVars, cardsCall, script>>

\* lines 603-640: generateStudyModule(options) of the Vertex adapter, with
\* the options given to the OpenAI adapter: getChatModel, then the structure
\* request
VertexCallGenerateStudyModule ==
    /\ gen.pc = "done"
    /\ genVertex.pc = "idle"
    /\ IF getChatModelThrows
       THEN /\ genVertex' = [genVertex EXCEPT !.pc = "done", !.outcome = "threw"]
            /\ UNCHANGED <<providerRequests, lastRequest>>
       ELSE /\ genVertex' = [genVertex EXCEPT
                                !.pc = "structure",
                                !.totalCardsNeeded = gen.totalCardsNeeded]
            /\ providerRequests' = providerRequests + 1
            /\ lastRequest' = ProviderRequest(Adapter(VERTEX_AI))
    /\ vertexFrame

\* the call goes on with the next reply of the script; a card request is a
\* provider request
VertexContinues ==
    /\ genVertex.pc \in {"structure", "cards", "backfill", "return"}
    /\ genVertex' = vertexStep(genVertex, script)
    /\ IF Len(genVertex'.calls) > Len(genVertex.calls)
       THEN /\ providerRequests' = providerRequests + 1
            /\ lastRequest' = ProviderRequest(Adapter(VERTEX_AI))
       ELSE UNCHANGED <<providerRequests, lastRequest>>
    /\ vertexFrame

\* the scripted reply to the next card request of the OpenAI adapter
NextCardReply == script.cards[Len(gen.calls) + 1]

InitAdapters ==
    /\ now = 0
    /\ studyModules = {}
    /\ flashcards = EmptyBag
    /\ nextId = 1
    /\ req = [r \in Slots |-> IdleRequest]
    /\ res = [r \in Slots |-> 0]
    /\ received = 0
    /\ env = [UnsetEnv EXCEPT !["AI_PROVIDER"] = OPENAI, !["OPENAI_API_KEY"] = "sk-key"]
    /\ aiServiceInstance = Null
    /\ serviceInstance = [p \in AIProvider |-> Null]
    /\ chatModel = TRUE
    /\ lastCall = NoCall
    /\ firstSinceReset = Null
    /\ providerRequests = 0
    /\ lastRequest = NoRequest
    /\ gen = IdleGeneration
    /\ lateGeneration = [r \in Slots |-> "none"]
    /\ resBody = [r \in Slots |-> NoResetTime]
    /\ studySessions = {}
    /\ moduleProgress = {}
    /\ lastAccess = NoAccess
    /\ cardsCall = IdleCardsCall
    /\ script \in Scripts
    /\ genVertex = IdleGeneration

NextAdapters ==
    \/ \E total \in TotalCardsInputs : CallGenerateStudyModule(total)
    \/ script.failed /\ StructureRequestFails
    \/ ~script.failed /\ StructureReplyArrives(script.structure)
    \/ LoopEnds
    \/ /\ AtTopic(gen)
       /\ NextCardReply # "fail"
       /\ TopicCardsReturned(ScriptedLength(NextCardReply, cardsForThisTopic(gen)))
    \/ AtTopic(gen) /\ NextCardReply = "fail" /\ TopicCardsFail
    \/ NoBackfill
    \/ /\ gen.pc = "backfill" /\ NeedsBackfill(gen)
       /\ NextCardReply # "fail"
       /\ BackfillReturned(ScriptedLength(NextCardReply,
                                          gen.totalCardsNeeded - Len(gen.allFlashcards)))
    \/ gen.pc = "backfill" /\ NeedsBackfill(gen) /\ NextCardReply = "fail" /\ BackfillFails
    \/ ReturnStudyModule
    \/ VertexCallGenerateStudyModule
    \/ VertexContinues

SpecAdapters == InitAdapters /\ [][NextAdapters]_vars

(***************************************************************************)
(* The properties.                                                         *)
(***************************************************************************)
\* the UTC calendar day of an instant
Day(t) == t \div MsPerDay
Today == Day(now)

\* the study modules of a user created on UTC day d
ModulesCreatedOn(userId, d) ==
    Cardinality({m \in studyModules : m.userId = userId /\ Day(m.createdAt) = d})

\* the flashcards of a user created on UTC day d that are flagged AI-generated
\* or belong to an AI-generated module
AICardsCreatedOn(userId, d) ==
    SumBag(flashcards,
           {c \in DOMAIN flashcards :
               /\ c.userId = userId
               /\ Day(c.createdAt) = d
               /\ (c.isAIGenerated \/
                   \E m \in studyModules : m.id = c.moduleId /\ m.isAIGenerated)})

\* requestedCount values the card check is asked about
RequestedCounts == {-5, 0, 1, 10, 20, 30, 31}

\* C1: for every user and store state checkStudyModuleDailyLimit returns
\* limit 3, currentCount = the user's study modules created in the current
\* UTC day, remaining = max(0, 3 - currentCount), and allowed = FALSE exactly
\* when currentCount >= 3.
C1_StudyModuleLimitResult ==
    \A u \in Users :
        LET result == checkStudyModuleDailyLimit(u, now)
            created == ModulesCreatedOn(u, Today)
        IN /\ result.limit = 3
           /\ result.currentCount = created
           /\ result.remaining = (IF created < 3 THEN 3 - created ELSE 0)
           /\ (result.allowed = FALSE) <=> (created >= 3)

\* C1 witness: a handler holds a denial computed at the limit
C1_Witness ==
    \E r \in Slots :
        /\ req[r].studyModuleLimit.done
        /\ ~req[r].studyModuleLimit.allowed
        /\ req[r].studyModuleLimit.currentCount = 3
        /\ req[r].studyModuleLimit.remaining = 0
        /\ \E m \in studyModules : m.userId = req[r].userId /\ m.id >= 3

\* C2: for every user, store state and requestedCount checkAICardsDailyLimit
\* returns limit 30, remaining = max(0, 30 - currentCount), echoes
\* requestedCount, and allowed = FALSE exactly when
\* currentCount + requestedCount > 30.
C2_AICardsLimitResult ==
    \A u \in Users, n \in RequestedCounts :
        LET result == checkAICardsDailyLimit(u, n, now)
            current == result.currentCount
        IN /\ result.limit = 30
           /\ result.remaining = (IF current < 30 THEN 30 - current ELSE 0)
           /\ result.requestedCount = n
           /\ (result.allowed = FALSE) <=> (current + n > 30)

\* C2 witness: a handler holds a denial computed above the limit, where the
\* remaining count is clamped to 0
C2_Witness ==
    \E r \in Slots :
        /\ req[r].aiCardsLimit.done
        /\ ~req[r].aiCardsLimit.allowed
        /\ req[r].aiCardsLimit.currentCount > 30
        /\ req[r].aiCardsLimit.remaining = 0
        /\ req[r].aiCardsLimit.requestedCount = req[r].numberOfCards

\* C3: with requests handled one at a time, the AI-generated flashcards of a
\* user created in the current UTC day never exceed 30, whatever
\* numberOfCards the bodies carry.
C3_AICardsNeverExceedLimit ==
    \A u \in Users : AICardsCreatedOn(u, Today) <= 30

\* C4: with requests handled one at a time, the study modules of a user
\* created in the current UTC day never exceed 3.
C4_StudyModulesNeverExceedLimit ==
    \A u \in Users : ModulesCreatedOn(u, Today) <= 3

\* C4 witness: a request created a module after the initial ones, the user is
\* at the limit and the next request is found over it
C4_Witness ==
    \E r \in Slots :
        /\ BothChecked(r)
        /\ ~req[r].studyModuleLimit.allowed
        /\ ModulesCreatedOn(req[r].userId, Today) = 3
        /\ \E m \in studyModules :
              m.userId = req[r].userId /\ m.id = nextId - 1 /\ m \notin SeededModules(3)

\* C5: the limit check and the write are not atomic.  A request that passed
\* the check is never checked again: when it leaves the module write it has
\* either added its row (one more module of its user today, whatever the
\* count had become) or failed with 500; it is never denied there.
C5_WriteIsNotGuardedByLimit ==
    [][\A r \in Slots :
          (req[r].pc = "saveModule" /\ req'[r].pc # "saveModule") =>
             \/ /\ req'[r].pc = "saveCards"
                /\ ModulesCreatedOn(req[r].userId, Today)' =
                      ModulesCreatedOn(req[r].userId, Today) + 1
             \/ /\ req'[r].pc = "idle"
                /\ res'[r] = 500
                /\ studyModules' = studyModules]_vars

\* C5 witness: two requests in flight both saw 2 modules at their check and
\* both have written: the user has 4 modules today, above the limit of 3
C5_Witness ==
    \E r1, r2 \in Slots :
        /\ r1 # r2
        /\ req[r1].userId = req[r2].userId
        /\ req[r1].pc = "saveCards" /\ req[r2].pc = "saveCards"
        /\ req[r1].studyModuleLimit.allowed /\ req[r1].studyModuleLimit.currentCount = 2
        /\ req[r2].studyModuleLimit.allowed /\ req[r2].studyModuleLimit.currentCount = 2
        /\ ModulesCreatedOn(req[r1].userId, Today) = 4

\* C6, as claimed: with at most MaxInFlight requests in flight, neither daily
\* count exceeds its limit by more than MaxInFlight - 1.
C6_ExcessAtMostConcurrencyMinusOne ==
    \A u \in Users :
        /\ ModulesCreatedOn(u, Today) <= 3 + (MaxInFlight - 1)
        /\ AICardsCreatedOn(u, Today) <= 30 + (MaxInFlight - 1)

\* C6, amended: with at most MaxInFlight requests in flight, the study
\* modules of a user created in the current UTC day never exceed the limit
\* of 3 by more than MaxInFlight - 1.
C6_StudyModuleExcessBounded ==
    \A u \in Users : ModulesCreatedOn(u, Today) <= 3 + (MaxInFlight - 1)

\* C6 witness: overlapping requests have taken a user above the limit
C6_Witness ==
    \E u \in Users :
        /\ ModulesCreatedOn(u, Today) > 3
        /\ \E m \in studyModules : m.userId = u /\ m \notin SeededModules(3)

\* C7: both daily counters count exactly the rows created on the current UTC
\* day: rows created before today's midnight are not counted, rows created at
\* or after it (the day start included) are.
C7_CountersRestartAtUTCMidnight ==
    \A u \in Users :
        /\ checkStudyModuleDailyLimit(u, now).currentCount = ModulesCreatedOn(u, Today)
        /\ checkAICardsDailyLimit(u, 0, now).currentCount = AICardsCreatedOn(u, Today)

\* C7 witness: a check made after a midnight counted the module created
\* exactly at the day start and left out the modules of the day before
C7_Witness ==
    \E r \in Slots :
        /\ req[r].pc = "checking"
        /\ req[r].studyModuleLimit.done
        /\ Today > 0
        /\ \E m \in studyModules :
              m.userId = req[r].userId /\ m.createdAt = Today * MsPerDay
        /\ \E m \in studyModules :
              m.userId = req[r].userId /\ Day(m.createdAt) < Today
        /\ req[r].studyModuleLimit.currentCount = ModulesCreatedOn(req[r].userId, Today)
        /\ req[r].studyModuleLimit.currentCount = 1

\* C8: between two resets every successful getAIService call returns the
\* adapter the first successful call returned, and the cached adapter is that
\* one, whatever AI_PROVIDER has become.
C8_SameAdapterBetweenResets ==
    /\ lastCall.outcome = "returned" => lastCall.instance = firstSinceReset
    /\ aiServiceInstance # Null => aiServiceInstance = firstSinceReset

\* C8 witness: a call returned the cached adapter although AI_PROVIDER now
\* selects another provider, whose adapter could be constructed
C8_Witness ==
    /\ lastCall.outcome = "returned"
    /\ lastCall.path = "cached"
    /\ lastCall.tag = env["AI_PROVIDER"]
    /\ Adapter(getAIProvider) # lastCall.instance
    /\ ~ConstructorThrows(getAIProvider)

\* the AI_PROVIDER value is missing or, in lower case, none of the four tags
InvalidTag(v) == v = Unset \/ toLowerCase(v) \notin AIProvider

RequiredCredential(provider) ==
    CASE provider = OPENAI -> "OPENAI_API_KEY"
      [] provider = VERTEX_AI -> "GOOGLE_VERTEX_AI_CREDENTIALS"
      [] provider = GOOGLE_API_KEY -> "GOOGLE_GEMINI_API_KEY"
      [] provider = OPENROUTER -> "OPENROUTER_API_KEY"

\* a step in which getAIService is called
GetAIServiceStep == GetAIServiceCalled \/ PreviewFlashcards

\* C10: a getAIService call that has to construct the adapter of the selected
\* provider while its credential is absent throws, issues no provider
\* request and leaves no instance cached; the call after a throw runs the
\* selection and construction again.
C10_MissingCredentialsFailFast ==
    [][GetAIServiceStep =>
          /\ (/\ aiServiceInstance = Null
              /\ serviceInstance[getAIProvider] = Null
              /\ env[RequiredCredential(getAIProvider)] = Unset) =>
                 /\ lastCall'.outcome = "threw"
                 /\ lastCall'.provider = getAIProvider
                 /\ aiServiceInstance' = Null
                 /\ serviceInstance' = serviceInstance
                 /\ providerRequests' = providerRequests
          /\ lastCall.outcome = "threw" =>
                 /\ aiServiceInstance = Null
                 /\ lastCall'.path # "cached"
                 /\ lastCall'.provider = getAIProvider]_vars

\* C10 witness: a call threw in the OpenAI or Vertex constructor, nothing is
\* cached and no provider request was issued
C10_Witness ==
    /\ lastCall.outcome = "threw"
    /\ lastCall.path = "constructor"
    /\ lastCall.provider \in {OPENAI, VERTEX_AI}
    /\ env[RequiredCredential(lastCall.provider)] = Unset
    /\ aiServiceInstance = Null
    /\ serviceInstance[lastCall.provider] = Null
    /\ providerRequests = 0

\* C11: once the active adapter has issued a provider request, a request it
\* issues later, with no reset in between, is the same request (same adapter,
\* API key and model), whatever happened to the environment in between.
C11_RequestsUnchangedByEnvironment ==
    [][(/\ providerRequests' = providerRequests + 1
        /\ lastCall'.path = "cached"
        /\ lastRequest # NoRequest) => lastRequest' = lastRequest]_vars

\* the structure reply is no JSON, or the plan in it lacks a required part
LacksStructure(reply) ==
    \/ reply.json = "invalid"
    \/ /\ reply.json = "object"
       /\ ~(reply.plan.title /\ reply.plan.hasTopics /\ reply.plan.hasLearningPlan)

\* C12: when the structure reply is not valid JSON, or the parsed plan lacks
\* title, topics or learningPlan, generateStudyModule fails with an error and
\* no per-topic or backfill card request has been issued.
C12_InvalidStructureFailsWithoutCardCalls ==
    (gen.pc \notin {"idle", "structure"} /\ LacksStructure(gen.reply)) =>
        /\ gen.pc = "done"
        /\ gen.outcome = "threw"
        /\ gen.calls = <<>>
        /\ gen.allFlashcards = <<>>

\* C12 witness: a call failed on a plan without learningPlan
C12_Witness ==
    /\ gen.pc = "done"
    /\ gen.outcome = "threw"
    /\ gen.reply.json = "object"
    /\ gen.reply.plan.title /\ gen.reply.plan.hasTopics
    /\ ~gen.reply.plan.hasLearningPlan
    /\ gen.calls = <<>>

\* the positions in the call log of the card requests of the entries
TopicCalls == {k \in 1 .. Len(gen.calls) : gen.calls[k].kind = "topic"}

\* C13: a failed card request of a learning-plan entry is contained: the call
\* does not fail, the entries are requested one after the other in order,
\* the entry after a failed one is requested too, and the call returns the
\* plan.
C13_TopicFailureIsContained ==
    /\ gen.calls # <<>> => gen.outcome # "threw"
    /\ \A k \in TopicCalls : gen.calls[k].entry = k
    /\ gen.pc \in {"backfill", "return", "done"} =>
          \A k \in TopicCalls :
              (~gen.calls[k].ok /\ k < Len(gen.reply.plan.learningPlan)) =>
                  (k + 1) \in TopicCalls
    /\ (gen.pc = "done" /\ gen.calls # <<>>) =>
          /\ gen.outcome = "returned"
          /\ gen.module = gen.reply.plan

\* C13 witness: a call returned the plan after the request of its first
\* entry had failed and the request of its second entry had been answered
C13_Witness ==
    /\ gen.pc = "done"
    /\ gen.outcome = "returned"
    /\ Len(gen.calls) >= 2
    /\ gen.calls[1].kind = "topic" /\ ~gen.calls[1].ok
    /\ gen.calls[2].kind = "topic" /\ gen.calls[2].ok
    /\ gen.module = gen.reply.plan

\* C14: a call that returns hands out the first totalCardsNeeded accumulated
\* cards, in the order they were generated, so never more than
\* totalCardsNeeded; when every card request failed it returns the plan with
\* an empty list, not an error.
C14_ReturnsAtMostTotalRequested ==
    gen.pc = "done" =>
        /\ gen.outcome = "returned" =>
              /\ Len(gen.flashcards) <= gen.totalCardsNeeded
              /\ Len(gen.flashcards) =
                    (IF Len(gen.allFlashcards) < gen.totalCardsNeeded
                     THEN Len(gen.allFlashcards) ELSE gen.totalCardsNeeded)
              /\ \A j \in 1 .. Len(gen.flashcards) :
                    gen.flashcards[j] = gen.allFlashcards[j]
              /\ \A j \in 1 .. Len(gen.flashcards) - 1 :
                    \/ gen.flashcards[j][1] < gen.flashcards[j + 1][1]
                    \/ /\ gen.flashcards[j][1] = gen.flashcards[j + 1][1]
                       /\ gen.flashcards[j][2] < gen.flashcards[j + 1][2]
        /\ (gen.calls # <<>> /\ \A k \in 1 .. Len(gen.calls) : ~gen.calls[k].ok) =>
              /\ gen.outcome = "returned"
              /\ gen.module = gen.reply.plan
              /\ gen.flashcards = <<>>

\* C14 witness: the requests were answered with more cards than needed and
\* the call returned exactly totalCardsNeeded of them
C14_Witness ==
    /\ gen.pc = "done"
    /\ gen.outcome = "returned"
    /\ Len(gen.allFlashcards) > gen.totalCardsNeeded
    /\ Len(gen.flashcards) = gen.totalCardsNeeded
    /\ Len(gen.calls) >= 2

RECURSIVE SumCounts(_)
SumCounts(counts) ==
    IF counts = <<>> THEN 0 ELSE Head(counts) + SumCounts(Tail(counts))

\* every answered card request got exactly the cards it asked for
AnsweredExactly ==
    \A k \in 1 .. Len(gen.calls) :
        gen.calls[k].ok => gen.calls[k].returned = gen.calls[k].numberOfCards
\* no backfill request failed
BackfillSucceeded ==
    \A k \in 1 .. Len(gen.calls) : gen.calls[k].kind = "backfill" => gen.calls[k].ok

\* C15: when every answered card request returns exactly the number asked
\* for and the backfill request, if issued, succeeds, the call returns exactly
\* totalCardsNeeded flashcards, whichever entry requests failed; when the
\* flashcardsCount values of the plan sum to totalCardsNeeded and no request
\* fails, no backfill request is issued.
C15_ExactCountWithBackfill ==
    (gen.pc = "done" /\ gen.outcome = "returned" /\ AnsweredExactly) =>
        /\ BackfillSucceeded => Len(gen.flashcards) = gen.totalCardsNeeded
        /\ (/\ SumCounts(gen.reply.plan.learningPlan) = gen.totalCardsNeeded
            /\ \A k \in 1 .. Len(gen.calls) : gen.calls[k].ok) =>
               \A k \in 1 .. Len(gen.calls) : gen.calls[k].kind = "topic"

\* C15 witness: 10 cards wanted, plan [5, 5]; the first entry request failed,
\* the second returned 5 cards, the backfill returned 5: 10 cards returned
C15_Witness ==
    /\ gen.pc = "done"
    /\ gen.outcome = "returned"
    /\ gen.totalCardsNeeded = 10
    /\ gen.reply.plan.learningPlan = <<5, 5>>
    /\ Len(gen.calls) = 3
    /\ ~gen.calls[1].ok
    /\ gen.calls[2].ok /\ gen.calls[2].returned = 5
    /\ gen.calls[3].kind = "backfill" /\ gen.calls[3].ok /\ gen.calls[3].returned = 5
    /\ Len(gen.flashcards) = 10

\* the timer of request r wins the race in this step
TimerWins(r) ==
    /\ req[r].pc = "generating"
    /\ lateGeneration[r] # "pending"
    /\ lateGeneration'[r] = "pending"

\* the abandoned generateStudyModule call of request r settles in this step
LateResultArrives(r) ==
    /\ lateGeneration[r] = "pending"
    /\ lateGeneration'[r] = "discarded"

\* C16: when the 2-minute timer fires before generateStudyModule settles,
\* the request is answered with an error (500) and ends without a study
\* module or flashcard row; when the generation result arrives later it is
\* discarded: no study module row, no flashcard row, no second response.
C16_LateGenerationIsDiscarded ==
    [][\A r \in Slots :
          /\ TimerWins(r) =>
                /\ res'[r] = 500
                /\ req'[r] = IdleRequest
                /\ UNCHANGED storeVars
          /\ LateResultArrives(r) => UNCHANGED <<storeVars, res, resBody, req>>]_vars

\* C16 witness: a request was answered 500 by the timer, its generation
\* settled afterwards, and the store is still empty
C16_Witness ==
    \E r \in Slots :
        /\ lateGeneration[r] = "discarded"
        /\ res[r] = 500
        /\ req[r].pc = "idle"
        /\ now >= GenerationTimeoutMs
        /\ studyModules = {}
        /\ flashcards = EmptyBag

\* a limit check of request r has returned allowed = false
LimitCheckDenied(r) ==
    \/ BothChecked(r) /\ (~req[r].studyModuleLimit.allowed \/ ~req[r].aiCardsLimit.allowed)
    \/ /\ req[r].pc = "studyModuleRateLimit"
       /\ ~checkStudyModuleDailyLimit(req[r].userId, now).allowed
    \/ /\ req[r].pc = "aiCardsRateLimit"
       /\ ~checkAICardsDailyLimit(req[r].userId, req[r].numberOfCards, now).allowed

\* the caller of the limit check of request r answers in this step
CallerAnswers(r) == req[r].pc # "idle" /\ req'[r].pc = "idle"

\* C17: whenever a limit check returned allowed = false, the caller answers
\* 429 and the response carries the reset timestamp, which is the next UTC
\* midnight: strictly after the current time and at most 24 hours after it.
C17_DenialCarriesResetTime ==
    [][\A r \in Slots :
          (LimitCheckDenied(r) /\ CallerAnswers(r)) =>
             /\ res'[r] = 429
             /\ resBody'[r].hasResetTime
             /\ resBody'[r].resetTime % MsPerDay = 0
             /\ resBody'[r].resetTime > now
             /\ resBody'[r].resetTime <= now + MsPerDay]_vars

\* request r is a preview request and its handler moves in this step
PreviewStep(r) ==
    /\ req'[r] # req[r]
    /\ req'[r].pc = "preview" \/ req[r].pc \in {"preview", "previewing"}

\* the two daily counters of a user, as the limit checks would read them
DailyCounters(userId) ==
    <<checkStudyModuleDailyLimit(userId, now).currentCount,
      checkAICardsDailyLimit(userId, 0, now).currentCount>>

\* C18: the preview endpoints (module, flashcard and topic preview) run
\* without an authenticated user and never persist: every step of a preview
\* request, whatever its outcome, leaves the stored study modules and
\* flashcards and both daily counters of every user unchanged.
C18_PreviewNeverPersists ==
    [][\A r \in Slots :
          PreviewStep(r) =>
             /\ req'[r].userId = ""
             /\ UNCHANGED <<studyModules, flashcards, nextId>>
             /\ \A userId \in Users : DailyCounters(userId)' = DailyCounters(userId)]_vars

\* C18 witness: a preview is answered with the generated data (200) while
\* the store holds the rows it held before
C18_Witness ==
    \E r \in Slots :
        /\ res[r] = 200
        /\ req[r].pc = "idle"
        /\ studyModules = SeededModules(2)
        /\ flashcards = SeededFlashcards(2)
        /\ DailyCounters("alice") = <<2, 20>>

\* C19: every data-store query is scoped by the requesting user's id: no
\* request authenticated as one user reads, updates or deletes a row
\* (flashcard, study session, module progress) owned by another user,
\* whatever id the request supplies.
C19_QueriesScopedByUser ==
    lastAccess.owner # "" => lastAccess.owner = lastAccess.userId

\* a method of the adapter is called for request r in this step
AdapterCalled(r) ==
    /\ req[r].pc \in {"checking", "preview"}
    /\ req'[r].pc \in {"generating", "previewing"}

\* the options are within the bounds of the endpoint that built them
WithinBounds(options) ==
    CASE options.method = "generateStudyModule" ->
            /\ options.numberOfCards \in MinNumberOfCards .. MaxNumberOfCards
            /\ options.topicLength <= MaxTopicLength
      [] options.method = "generateFlashcardsFromTopic" ->
            /\ options.numberOfCards \in MinCardsFromTopic .. MaxCardsFromTopic
            /\ options.topicLength <= MaxTopicLength
      [] options.method = "generateFlashcards" ->
            options.contentLength <= MaxContentLength

\* the body of request r, as destructured, is outside a bound of its endpoint
OutsideBounds(r) ==
    CASE req[r].route = "cards" -> req[r].content.length > MaxContentLength
      [] req[r].route = "topic" ->
            \/ req[r].numberOfCards \notin MinCardsFromTopic .. MaxCardsFromTopic
            \/ req[r].topic.length > MaxTopicLength
      [] OTHER ->
            \/ req[r].numberOfCards \notin MinNumberOfCards .. MaxNumberOfCards
            \/ req[r].topic.length > MaxTopicLength

\* the handler of request r has reached the validation of the body
AtValidation(r) == Admitted(r) \/ req[r].pc = "preview"

\* C20: on every AI route, generate and preview alike, the adapter is only
\* called with numberOfCards within the endpoint's bound (module 5-100,
\* topic-based cards 1-50), a topic of at most 200 characters and content of
\* at most 50,000 characters; a request outside a bound is answered 400 with
\* no adapter call.
C20_BoundsHoldAtAdapter ==
    [][\A r \in Slots :
          /\ AdapterCalled(r) => WithinBounds(req'[r].adapterOptions)
          /\ (AtValidation(r) /\ OutsideBounds(r) /\ req'[r] # req[r]) =>
                (res'[r] = 400 /\ req'[r].pc = "idle")]_vars

\* the options field of a returned card is present
HasOptions(card) == card.options.kind # "undefined"

\* C21: every flashcard generateFlashcards returns has options present
\* with exactly 4 entries if and only if its questionType is
\* multiple_choice, and a card that is not multiple_choice carries no options
\* field the provider did not give it.
C21_OptionsIffMultipleChoice ==
    (cardsCall.pc = "done" /\ cardsCall.outcome = "returned") =>
        \A k \in 1 .. Len(cardsCall.flashcards) :
            LET card == cardsCall.flashcards[k]
            IN /\ (HasOptions(card) /\ card.options.length = 4)
                     <=> card.questionType = "multiple_choice"
               /\ (card.questionType # "multiple_choice" /\ HasOptions(card)) =>
                     card.options = cardsCall.reply.cards[k].options

\* C22: given the same generateStudyModule request and the same sequence of
\* provider replies, the OpenAI adapter and the Vertex adapter issue the same
\* sequence of sub-calls with the same requested card counts and return the
\* same result or the same failure.
C22_AdaptersAreSubstitutable ==
    (gen.pc = "done" /\ genVertex.pc = "done") =>
        /\ genVertex.calls = gen.calls
        /\ genVertex.outcome = gen.outcome
        /\ genVertex.module = gen.module
        /\ genVertex.flashcards = gen.flashcards

\* C22 witness: both adapters returned after the same three sub-calls, the
\* first of which failed
C22_Witness ==
    /\ gen.pc = "done" /\ genVertex.pc = "done"
    /\ genVertex.outcome = "returned"
    /\ Len(genVertex.calls) = 3
    /\ ~genVertex.calls[1].ok
    /\ genVertex.calls[3].kind = "backfill"
    /\ Len(genVertex.flashcards) > 0

\* the cards accumulated before card request k of the call
AccumulatedBefore(k) == SumCounts([j \in 1 .. k - 1 |-> gen.calls[j].returned])

\* min(entry.flashcardsCount or fallback, totalRequested - accumulated) with
\* fallback = max(2, floor(totalRequested / topicCount)), for entry e when
\* accumulated cards are there (no topics: the fallback is infinite)
ExpectedCardsForTopic(e, accumulated) ==
    LET plan == gen.reply.plan
        left == gen.totalCardsNeeded - accumulated
        count == plan.learningPlan[e]
    IN IF count # 0 THEN (IF count < left THEN count ELSE left)
       ELSE IF plan.topics = 0 THEN left
       ELSE LET floor == gen.totalCardsNeeded \div plan.topics
                fallback == IF floor > 2 THEN floor ELSE 2
            IN IF fallback < left THEN fallback ELSE left

\* the card-fill phase is over
CardFillOver == gen.pc \in {"backfill", "return"} \/ (gen.pc = "done" /\ gen.calls # <<>>)

\* C23: in the card-fill phase the learning-plan entries are requested in
\* order, each request asks for min(entry.flashcardsCount or fallback,
\* totalRequested - accumulatedSoFar) cards, and the first entry for which
\* this value is <= 0 ends the phase without error: no later entry is
\* requested.
C23_CardFillRequestsInOrder ==
    /\ \A k \in TopicCalls :
          /\ gen.calls[k].entry = k
          /\ \A j \in 1 .. k : gen.calls[j].kind = "topic"
          /\ gen.calls[k].numberOfCards = ExpectedCardsForTopic(k, AccumulatedBefore(k))
          /\ gen.calls[k].numberOfCards > 0
    /\ (gen.pc \in {"backfill", "return"} \/ gen.outcome = "returned") =>
          LET n == Cardinality(TopicCalls)
          IN /\ gen.outcome # "threw"
             /\ n < Len(gen.reply.plan.learningPlan) =>
                    ExpectedCardsForTopic(n + 1, AccumulatedBefore(n + 1)) <= 0

\* C23 witness: 10 cards wanted, plan [5, 5, 5]: the first two entries were
\* asked for 5 cards each and answered, the third was not requested
C23_Witness ==
    /\ gen.pc = "done" /\ gen.outcome = "returned"
    /\ gen.totalCardsNeeded = 10
    /\ gen.reply.plan.learningPlan = <<5, 5, 5>>
    /\ Len(gen.calls) = 2
    /\ gen.calls[1].kind = "topic" /\ gen.calls[1].numberOfCards = 5
    /\ gen.calls[2].kind = "topic" /\ gen.calls[2].numberOfCards = 5
    /\ ExpectedCardsForTopic(3, AccumulatedBefore(3)) <= 0

\* the positions in the call log of the backfill requests
BackfillCalls == {k \in 1 .. Len(gen.calls) : gen.calls[k].kind = "backfill"}

\* the cards the requests of the entries returned
AccumulatedByTopics ==
    SumCounts([k \in 1 .. Len(gen.calls) |->
                  IF gen.calls[k].kind = "topic" THEN gen.calls[k].returned ELSE 0])

\* C24: a backfill request is issued exactly when fewer than totalRequested
\* cards are accumulated after the card-fill phase; it is issued once, after
\* all requests of the entries, asks for exactly totalRequested - accumulated
\* cards, and its failure is swallowed: the result is still returned.
C24_BackfillExactlyWhenShort ==
    /\ Cardinality(BackfillCalls) <= 1
    /\ \A k \in BackfillCalls :
          /\ k = Len(gen.calls)
          /\ gen.pc \in {"return", "done"}
          /\ AccumulatedByTopics < gen.totalCardsNeeded
          /\ gen.calls[k].numberOfCards = gen.totalCardsNeeded - AccumulatedByTopics
          /\ gen.outcome # "threw"
    /\ (gen.pc = "return" \/ gen.outcome = "returned") =>
          /\ (BackfillCalls # {}) <=> (AccumulatedByTopics < gen.totalCardsNeeded)
          /\ gen.pc = "done" =>
                /\ gen.module = gen.reply.plan
                /\ Len(gen.flashcards) >= Len(gen.allFlashcards) \/
                   Len(gen.flashcards) = gen.totalCardsNeeded

\* C24 witness: the entries returned 4 of 5 cards, the backfill request for
\* the missing card failed, and the call returned the 4 cards
C24_Witness ==
    /\ gen.pc = "done" /\ gen.outcome = "returned"
    /\ gen.totalCardsNeeded = 5
    /\ AccumulatedByTopics = 4
    /\ BackfillCalls = {Len(gen.calls)}
    /\ ~gen.calls[Len(gen.calls)].ok
    /\ gen.calls[Len(gen.calls)].numberOfCards = 1
    /\ Len(gen.flashcards) = 4

\* one structure request, then at most one card request per learning-plan
\* entry, each entry at most once, and at most one backfill request
RequestsAreBounded ==
    /\ gen.pc # "idle" => providerRequests = 1 + Len(gen.calls)
    /\ Cardinality(TopicCalls) <= Len(gen.reply.plan.learningPlan)
    /\ \A j, k \in TopicCalls : gen.calls[j].entry = gen.calls[k].entry => j = k
    /\ Cardinality(BackfillCalls) <= 1
    /\ gen.pc = "structure" => gen.calls = <<>>

\* C25: generateStudyModule terminates when every provider request returns
\* or fails: it issues exactly one structure request, then at most one card
\* request per learning-plan entry and at most one backfill request, and
\* sends no failed request again.
C25_GenerateStudyModuleTerminates ==
    /\ []RequestsAreBounded
    /\ (gen.pc # "idle") ~> (gen.pc = "done")

\* C25 witness: a call is over after the structure request, one card request
\* for each of the three entries, two of which failed, and a backfill request
C25_Witness ==
    /\ gen.pc = "done"
    /\ Len(gen.reply.plan.learningPlan) = 3
    /\ TopicCalls = {1, 2, 3}
    /\ ~gen.calls[1].ok /\ ~gen.calls[3].ok
    /\ BackfillCalls = {4}
    /\ providerRequests = 5

\* the AI card counter of a user, as checkAICardsDailyLimit and
\* getDailyUsageSummary read it
AICardCounter(userId) == checkAICardsDailyLimit(userId, 0, now).currentCount

\* the card belongs to an AI-generated module
InAIGeneratedModule(c) ==
    \E m \in studyModules : m.id = c.moduleId /\ m.isAIGenerated

\* the card is one the counter of the user is to count: the user's, created
\* in the current UTC day, flagged or in an AI-generated module
IsCounted(c, userId) ==
    /\ c.userId = userId
    /\ c.createdAt \div MsPerDay = now \div MsPerDay
    /\ c.isAIGenerated \/ InAIGeneratedModule(c)

\* the copies of row c this step adds to the table
Added(c) == CopiesIn(c, flashcards') - CopiesIn(c, flashcards)

\* C26: the AI card counter of a user is the number of that user's
\* flashcards created in the current UTC day that are flagged AI-generated or
\* belong to an AI-generated module, each counted once; a step that adds
\* only cards made by hand or cards of other users does not change it, and
\* cards of an earlier day are not in it.
C26_CounterCountsTodaysAICardsOnce ==
    /\ [](\A userId \in Users :
            AICardCounter(userId) =
                BagCardinality([c \in {d \in DOMAIN flashcards : IsCounted(d, userId)}
                                   |-> flashcards[c]]))
    /\ [][\A userId \in Users :
            /\ (/\ now' = now
                /\ studyModules' = studyModules
                /\ \A c \in DOMAIN flashcards' :
                      Added(c) > 0 =>
                          \/ c.userId # userId
                          \/ ~c.isAIGenerated /\ ~InAIGeneratedModule(c))
                  => AICardCounter(userId)' = AICardCounter(userId)
            /\ (now' \div MsPerDay # now \div MsPerDay) => AICardCounter(userId)' = 0]_vars

\* C26 witness: on the second day alice's counter is 10: her 10 flagged cards
\* in an AI-generated module of today; her cards of the day before, her card
\* made by hand and bob's card made by hand are in the table too
C26_Witness ==
    /\ now >= MsPerDay
    /\ AICardCounter("alice") = 10
    /\ \E c \in DOMAIN flashcards :
          /\ c.userId = "alice" /\ c.createdAt >= MsPerDay
          /\ c.isAIGenerated /\ InAIGeneratedModule(c)
          /\ flashcards[c] = 10
    /\ \E c \in DOMAIN flashcards :
          c.userId = "alice" /\ c.createdAt < MsPerDay /\ c.isAIGenerated
    /\ \E c \in DOMAIN flashcards :
          c.userId = "alice" /\ c.createdAt >= MsPerDay /\ ~c.isAIGenerated
    /\ \E c \in DOMAIN flashcards : c.userId = "bob" /\ ~c.isAIGenerated

\* a step of request r from its arrival to the 429 of a limit check: the
\* arrival, the two count queries, the denial
StepToDenial(r) ==
    /\ req'[r] # req[r]
    /\ \/ req'[r].pc = "checking"
       \/ req[r].pc = "checking" /\ res'[r] = 429

\* C27: a generate request denied by either daily limit has no effect: from
\* its arrival to its 429 response no step of it calls the AI service or
\* writes a study module or flashcard row, so both daily counters of every
\* user are after each of these steps what they were before.
C27_DeniedRequestHasNoEffect ==
    [][\A r \in Slots :
          StepToDenial(r) =>
              /\ UNCHANGED <<studyModules, flashcards, nextId>>
              /\ UNCHANGED <<providerRequests, lastRequest, lastCall, aiServiceInstance,
                             serviceInstance>>
              /\ \A userId \in Users : DailyCounters(userId)' = DailyCounters(userId)]_vars

\* C27 witness: a request of alice was answered 429 on the AI card limit
\* while she had 20 cards of today; the AI service has not been called
C27_Witness ==
    \E r \in Slots :
        /\ res[r] = 429
        /\ req[r].pc = "idle"
        /\ DailyCounters("alice") = <<2, 20>>
        /\ lastCall = NoCall
        /\ providerRequests = 0

\* request r is answered with an error status in this step
AnsweredWithError(r) ==
    /\ req[r].pc # "idle"
    /\ req'[r].pc = "idle"
    /\ res'[r] \in {400, 429, 500}

\* C28: persistence in POST /api/study-modules/ai/generate is all-or-nothing:
\* when the request is answered with an error status, no study module row and
\* no flashcard row created by the request is in the store (so the daily
\* counters of the user do not count the request).
C28_PersistenceIsAllOrNothing ==
    [][\A r \in Slots :
          (AnsweredWithError(r) /\ req[r].savedModuleId # 0) =>
              /\ \A m \in studyModules' : m.id # req[r].savedModuleId
              /\ \A c \in DOMAIN flashcards' : c.moduleId # req[r].savedModuleId]_vars

\* request r stores cards the AI service produced in this step
StoresAICards(r) ==
    /\ req[r].pc \in {"saveCards", "cardsSaving"}
    /\ req'[r].pc = "idle"
    /\ \E c \in DOMAIN flashcards' : Added(c) > 0

\* C29: no route stores AI-generated flashcards for a user without first
\* passing the AI card daily limit check: a request that stores cards the AI
\* service produced has been allowed by checkAICardsDailyLimit.
C29_AICardsStoredOnlyAfterLimitCheck ==
    [][\A r \in Slots :
          StoresAICards(r) =>
              /\ req[r].aiCardsLimit.done
              /\ req[r].aiCardsLimit.allowed]_vars

\* the cardsStudied, totalCorrect and completedAt stored for the user and
\* the module of request r (zeros and no date when no row is stored)
StoredProgress(r) ==
    LET rows == ProgressRows(req[r].userId, req[r].moduleId)
    IN IF rows = {} THEN [NoProgress EXCEPT !.found = FALSE]
       ELSE LET p == CHOOSE row \in rows : TRUE
            IN [found |-> TRUE, currentCardIndex |-> p.currentCardIndex,
                cardsStudied |-> p.cardsStudied, totalCorrect |-> p.totalCorrect,
                completedAt |-> p.completedAt]

\* request r ends its session with a module in this step
EndsModuleSession(r) ==
    /\ req[r].pc = "writeProgress"
    /\ req'[r].pc = "idle"

\* the row stored after the step, for the user and the module of request r
StoredProgressAfter(r) ==
    CHOOSE p \in moduleProgress' :
        p.userId = req[r].userId /\ p.moduleId = req[r].moduleId

\* C30: module progress accumulates every session end, also when two PUT
\* /api/study/session/:id requests of a user for a module overlap: each
\* succeeds and leaves cardsStudied and totalCorrect at what was stored plus
\* its own contribution (so after both, at the previous totals plus both),
\* and a completedAt that was set is not cleared or changed.
C30_ProgressAccumulatesEverySessionEnd ==
    [][\A r \in Slots :
          EndsModuleSession(r) =>
              /\ res'[r] = 200
              /\ StoredProgressAfter(r).cardsStudied =
                    StoredProgress(r).cardsStudied + req[r].cardsStudied
              /\ StoredProgressAfter(r).totalCorrect =
                    StoredProgress(r).totalCorrect + req[r].correctAnswers
              /\ StoredProgress(r).completedAt.set =>
                    StoredProgressAfter(r).completedAt = StoredProgress(r).completedAt]_vars

====
